---- MODULE Spec2Model ----
(***************************************************************************)
(* A model of the Markdown-to-LaTeX conversion engine of rxiv-maker        *)
(* (src/src/py/converters/md2tex.py and text_formatters.py).               *)
(*                                                                         *)
(* Text is a sequence of atoms.  An atom is a lexical unit that no regular *)
(* expression or string operation of the code splits: a punctuation        *)
(* character, a blank, a line break, a word (a run of \w characters        *)
(* without underscore); a LaTeX control word such as \texttt is a          *)
(* backslash atom followed by a word.  The                                 *)
(* regular expressions of the source are transcribed one for one as        *)
(* sequences of pattern elements and run by a backtracking matcher that    *)
(* follows the priorities of Python's re module (leftmost match, greedy    *)
(* and lazy repetition, alternatives in order).                            *)
(***************************************************************************)
EXTENDS Integers, Sequences, FiniteSets, TLC

(***************************************************************************)
(* Pattern elements.                                                       *)
(***************************************************************************)
Lit(q)        == [op |-> "lit", seq |-> q]
In(S)         == [op |-> "set", set |-> S, neg |-> FALSE]
NotIn(S)      == [op |-> "set", set |-> S, neg |-> TRUE]
Rep(S, neg, min, greedy) ==
    [op |-> "star", set |-> S, neg |-> neg, min |-> min, greedy |-> greedy]
Star(S)       == Rep(S, FALSE, 0, TRUE)
Plus(S)       == Rep(S, FALSE, 1, TRUE)
StarNot(S)    == Rep(S, TRUE, 0, TRUE)
PlusNot(S)    == Rep(S, TRUE, 1, TRUE)
LazyStarNot(S) == Rep(S, TRUE, 0, FALSE)
LazyPlusNot(S) == Rep(S, TRUE, 1, FALSE)
Opt(q)        == [op |-> "alt", alts |-> <<q, <<>> >>]
Alt(qs)       == [op |-> "alt", alts |-> qs]
Many1(q)      == [op |-> "rep1", body |-> q]
Bol           == [op |-> "bol"]
Eol           == [op |-> "eol"]
Eos           == [op |-> "eos"]
Wb            == [op |-> "wb"]
NegLook(q)    == [op |-> "nla", body |-> q]
Look(q)       == [op |-> "la", body |-> q]
NegBehind(S)  == [op |-> "nlb", set |-> S]
Open(g)       == [op |-> "open", g |-> g]
Close(g)      == [op |-> "close", g |-> g]

NoCaps  == << <<0, 0>>, <<0, 0>>, <<0, 0>> >>
NoMatch == [ok |-> FALSE, end |-> 0, caps |-> NoCaps]

(***************************************************************************)
(* Atom classes.  PunctAtoms are the single non-word characters; every     *)
(* other atom is a run of \w characters (a word, a number, a placeholder,  *)
(* or the underscore).                                                     *)
(***************************************************************************)
\* the backquote character (a string of this notation cannot hold it)
BT == "BQ"
PunctAtoms ==
    {" ", "\n", "\t", BT, "*", "|", "-", "@", ":", ";", ",", ".", "[", "]",
     "(", ")", "{", "}", "\\", "&", "%", "$", "#", "^", "~", "!", "<", ">",
     "/", "=", "\"", "+", "?"}
Space == {" ", "\n", "\t"}

\* the atom is a run of \w characters
IsWord(a) == a \notin PunctAtoms
FirstIsWord(a) == IsWord(a)
LastIsWord(a)  == IsWord(a)

(***************************************************************************)
(* The matcher.  M(res, s, i, caps) matches the pattern elements res, in   *)
(* sequence, against s from position i and gives the end of the first      *)
(* match in re's backtracking order, with the capture groups' extents.     *)
(***************************************************************************)
InClass(e, a) == IF e.neg THEN a \notin e.set ELSE a \in e.set

Min(S) == CHOOSE x \in S : \A y \in S : x <= y
Max(S) == CHOOSE x \in S : \A y \in S : x >= y

\* the length of the longest run of atoms of the class e from position i
Run(e, s, i) ==
    LET stop == {j \in i..Len(s) : ~InClass(e, s[j])}
    IN IF stop = {} THEN Len(s) - i + 1 ELSE Min(stop) - i

IsPrefixAt(q, s, i) ==
    /\ i >= 1
    /\ i + Len(q) - 1 <= Len(s)
    /\ \A k \in 1..Len(q) : s[i + k - 1] = q[k]

WordBefore(s, i) == i > 1 /\ LastIsWord(s[i - 1])
WordAt(s, i)     == i <= Len(s) /\ FirstIsWord(s[i])

\* MatchAt matches the elements re[p], re[p + 1], ... against s from position i
RECURSIVE MatchAt(_, _, _, _, _), TryAlts(_, _, _, _, _, _)
MatchAt(re, p, s, i, caps) ==
    IF p > Len(re) THEN [ok |-> TRUE, end |-> i, caps |-> caps]
    ELSE CASE re[p].op = "lit" ->
                IF IsPrefixAt(re[p].seq, s, i)
                THEN MatchAt(re, p + 1, s, i + Len(re[p].seq), caps) ELSE NoMatch
           [] re[p].op = "set" ->
                IF i <= Len(s) /\ InClass(re[p], s[i])
                THEN MatchAt(re, p + 1, s, i + 1, caps) ELSE NoMatch
           [] re[p].op = "star" ->
                \* the run lengths after which the rest of the pattern matches:
                \* a greedy repetition takes the longest, a lazy one the shortest
                LET rs == {[k |-> k, r |-> MatchAt(re, p + 1, s, i + k, caps)] :
                              k \in re[p].min..Run(re[p], s, i)}
                    ok == {x \in rs : x.r.ok}
                IN IF ok = {} THEN NoMatch
                   ELSE (CHOOSE x \in ok : \A y \in ok :
                            IF re[p].greedy THEN x.k >= y.k ELSE x.k <= y.k).r
           [] re[p].op = "alt" ->
                TryAlts(re[p].alts, 1, SubSeq(re, p + 1, Len(re)), s, i, caps)
           [] re[p].op = "rep1" ->
                MatchAt(re[p].body
                        \o <<[op |-> "rep0", body |-> re[p].body, at |-> i]>>
                        \o SubSeq(re, p + 1, Len(re)), 1, s, i, caps)
           [] re[p].op = "rep0" ->
                IF i = re[p].at THEN MatchAt(re, p + 1, s, i, caps)
                ELSE LET r == MatchAt(re[p].body
                                  \o <<[op |-> "rep0", body |-> re[p].body, at |-> i]>>
                                  \o SubSeq(re, p + 1, Len(re)), 1, s, i, caps)
                     IN IF r.ok THEN r ELSE MatchAt(re, p + 1, s, i, caps)
           [] re[p].op = "bol" ->
                IF i = 1 \/ s[i - 1] = "\n" THEN MatchAt(re, p + 1, s, i, caps)
                ELSE NoMatch
           [] re[p].op = "eol" ->
                IF i = Len(s) + 1 \/ s[i] = "\n" THEN MatchAt(re, p + 1, s, i, caps)
                ELSE NoMatch
           [] re[p].op = "eos" ->
                IF i = Len(s) + 1 THEN MatchAt(re, p + 1, s, i, caps) ELSE NoMatch
           [] re[p].op = "wb" ->
                IF WordBefore(s, i) # WordAt(s, i) THEN MatchAt(re, p + 1, s, i, caps)
                ELSE NoMatch
           [] re[p].op = "nla" ->
                IF MatchAt(re[p].body, 1, s, i, caps).ok THEN NoMatch
                ELSE MatchAt(re, p + 1, s, i, caps)
           [] re[p].op = "la" ->
                IF MatchAt(re[p].body, 1, s, i, caps).ok
                THEN MatchAt(re, p + 1, s, i, caps) ELSE NoMatch
           [] re[p].op = "nlb" ->
                IF i > 1 /\ s[i - 1] \in re[p].set THEN NoMatch
                ELSE MatchAt(re, p + 1, s, i, caps)
           [] re[p].op = "open" ->
                MatchAt(re, p + 1, s, i, [caps EXCEPT ![re[p].g] = <<i, i>>])
           [] re[p].op = "close" ->
                MatchAt(re, p + 1, s, i, [caps EXCEPT ![re[p].g][2] = i])
\* alternatives in order, each followed by the rest t of the pattern
TryAlts(alts, n, t, s, i, caps) ==
    IF n > Len(alts) THEN NoMatch
    ELSE LET r == MatchAt(alts[n] \o t, 1, s, i, caps)
         IN IF r.ok THEN r ELSE TryAlts(alts, n + 1, t, s, i, caps)
\* re.match(res, s[i - 1:])
M(res, s, i, caps) == MatchAt(res, 1, s, i, caps)

\* re.finditer: the non-overlapping matches, left to right; found holds the
\* match at every position where the pattern matches
RECURSIVE MatchesFrom(_, _)
MatchesFrom(found, pos) ==
    IF \A x \in found : x.b < pos THEN <<>>
    ELSE LET m == CHOOSE x \in found : x.b >= pos /\ \A y \in found : y.b < pos \/ x.b <= y.b
         IN <<[b |-> m.b, e |-> m.r.end, caps |-> m.r.caps]>>
            \o MatchesFrom(found, IF m.r.end > m.b THEN m.r.end ELSE m.b + 1)
FindAll(re, s) ==
    LET tried == {[b |-> j, r |-> M(re, s, j, NoCaps)] : j \in 1..(Len(s) + 1)}
    IN MatchesFrom({x \in tried : x.r.ok}, 1)

MatchText(s, m) == SubSeq(s, m.b, m.e - 1)
Group(s, m, g)  == SubSeq(s, m.caps[g][1], m.caps[g][2] - 1)

\* s with match ms[k] replaced by reps[k]
RECURSIVE SpliceFrom(_, _, _, _, _)
SpliceFrom(s, ms, reps, k, pos) ==
    IF k > Len(ms) THEN SubSeq(s, pos, Len(s))
    ELSE SubSeq(s, pos, ms[k].b - 1) \o reps[k]
         \o SpliceFrom(s, ms, reps, k + 1, ms[k].e)
Splice(s, ms, reps) == IF Len(ms) = 0 THEN s ELSE SpliceFrom(s, ms, reps, 1, 1)

\* str.replace(old, new)
Replace(s, old, new) ==
    IF Len(s) = 0 THEN s
    ELSE LET ms == FindAll(<<Lit(old)>>, s)
         IN Splice(s, ms, [k \in 1..Len(ms) |-> new])
\* old in s
Contains(s, q) == \E i \in 1..(Len(s) + 1) : IsPrefixAt(q, s, i)

\* s.split(sep) for a one-atom separator: the texts between the cuts
Split(s, sep) ==
    LET cuts == {j \in 1..Len(s) : s[j] = sep}
        n == Cardinality(cuts)
        Cut(k) == IF k = 0 THEN 0
                  ELSE IF k = n + 1 THEN Len(s) + 1
                  ELSE CHOOSE j \in cuts : Cardinality({l \in cuts : l < j}) = k - 1
    IN [k \in 1..(n + 1) |-> SubSeq(s, Cut(k - 1) + 1, Cut(k) - 1)]
\* sep.join(parts) and "".join(parts)
RECURSIVE Join(_, _)
Join(parts, sep) ==
    IF Len(parts) = 0 THEN <<>>
    ELSE IF Len(parts) = 1 THEN parts[1]
    ELSE LET h == Len(parts) \div 2
         IN Join(SubSeq(parts, 1, h), sep) \o <<sep>>
            \o Join(SubSeq(parts, h + 1, Len(parts)), sep)
RECURSIVE Flatten(_)
Flatten(parts) ==
    IF Len(parts) = 0 THEN <<>>
    ELSE IF Len(parts) = 1 THEN parts[1]
    ELSE LET h == Len(parts) \div 2
         IN Flatten(SubSeq(parts, 1, h)) \o Flatten(SubSeq(parts, h + 1, Len(parts)))

\* str.strip(), lstrip(), rstrip()
LStrip(s) == SubSeq(s, Run(In(Space), s, 1) + 1, Len(s))
RStrip(s) ==
    LET keep == {j \in 1..Len(s) : s[j] \notin Space}
    IN IF keep = {} THEN <<>> ELSE SubSeq(s, 1, Max(keep))
Strip(s) == LStrip(RStrip(s))
StartsWith(s, q) == IsPrefixAt(q, s, 1)
EndsWith(s, q)   == Len(q) <= Len(s) /\ IsPrefixAt(q, s, Len(s) - Len(q) + 1)

(***************************************************************************)
(* Character classes of the source's regular expressions, on atoms.        *)
(***************************************************************************)
NonWord  == PunctAtoms                        \* complement of \w
Nothing      == {}                                \* NotIn(Nothing): any atom, the . of DOTALL
Newline  == {"\n"}                            \* NotIn(Newline): . otherwise
Blank    == {" ", "\t"}                       \* [ \t]
W1       == Rep(NonWord, TRUE, 1, TRUE)       \* \w+
W0       == Rep(NonWord, TRUE, 0, TRUE)       \* \w*
Fence    == <<BT, BT, BT>>

\* str.lower() on the atoms that have upper-case letters: the single
\* letters and the words of the texts of this model
UpperCase ==
    <<"A", "B", "C", "D", "E", "F", "G", "H", "I", "J", "K", "L", "M",
      "N", "O", "P", "Q", "R", "S", "T", "U", "V", "W", "X", "Y", "Z">>
LowerCase ==
    <<"a", "b", "c", "d", "e", "f", "g", "h", "i", "j", "k", "l", "m",
      "n", "o", "p", "q", "r", "s", "t", "u", "v", "w", "x", "y", "z">>
LowerAtom(a) ==
    CASE a = "Python" -> "python"
      [] a = "YAML" -> "yaml"
      [] a = "Abstract" -> "abstract"
      [] a = "Markdown" -> "markdown"
      [] a = "Element" -> "element"
      [] a = "Table" -> "table"
      [] a = "TABLE" -> "table"
      [] a = "Cap" -> "cap"
      [] a = "CONFIG" -> "config"
      [] a = "MAIN" -> "main"
      [] a = "FIGURES" -> "figures"
      [] a = "Figures" -> "figures"
      [] a = "File" -> "file"
      [] a = "Structure" -> "structure"
      [] a = "Organisation" -> "organisation"
      [] a = "Note" -> "note"
      [] \E k \in 1..26 : UpperCase[k] = a ->
            LowerCase[CHOOSE k \in 1..26 : UpperCase[k] = a]
      [] OTHER -> a
Lower(s) == [k \in 1..Len(s) |-> LowerAtom(s[k])]

BeginVerbatim == <<"\\", "begin", "{", "verbatim", "}">>
EndVerbatim   == <<"\\", "end", "{", "verbatim", "}">>
BeginMinted   == <<"\\", "begin", "{", "minted", "}">>
EndMinted     == <<"\\", "end", "{", "minted", "}">>

(***************************************************************************)
(* convert_code_blocks_to_latex                                            *)
(***************************************************************************)
language_map(l) ==
    CASE l = "yml" -> "yaml"
      [] l = "sh" -> "bash"
      [] l = "shell" -> "bash"
      [] l = "js" -> "javascript"
      [] l = "ts" -> "typescript"
      [] l = "py" -> "python"
      [] l = "md" -> "markdown"
      [] l = "tex" -> "latex"
      [] l = "bib" -> "bibtex"
      [] OTHER -> l
SupportedLanguages ==
    {"yaml", "markdown", "python", "bash", "javascript", "typescript", "latex",
     "json", "xml", "html", "css", "bibtex"}

\* r"^BTBTBT(?:\w+)?\n(.*?)\nBTBTBT$"  (MULTILINE | DOTALL)
FencedRe ==
    <<Bol, Lit(Fence), Opt(<<W1>>), Lit(<<"\n">>), Open(1), LazyStarNot(Nothing),
      Close(1), Lit(<<"\n">> \o Fence), Eol>>
\* r"^BTBTBT(\w+)" searched in the matched text: it can only match at its start
FenceLanguageRe == <<Lit(Fence), Open(1), W1, Close(1)>>

\* str.find / str.rfind of q in s, as 1-based positions (0: not found)
Find(s, q) ==
    IF Contains(s, q)
    THEN CHOOSE i \in 1..(Len(s) + 1) :
            IsPrefixAt(q, s, i) /\ \A j \in 1..(i - 1) : ~IsPrefixAt(q, s, j)
    ELSE 0
RFind(s, q) ==
    IF Contains(s, q)
    THEN CHOOSE i \in 1..(Len(s) + 1) :
            IsPrefixAt(q, s, i) /\ \A j \in (i + 1)..(Len(s) + 1) : ~IsPrefixAt(q, s, j)
    ELSE 0

process_fenced_code_block(s, m) ==
    LET full == MatchText(s, m)
        lm   == M(FenceLanguageRe, full, 1, NoCaps)
        lang == IF lm.ok THEN Lower(SubSeq(full, lm.caps[1][1], lm.caps[1][2] - 1))
                ELSE <<>>
        \* a language name is one word; a run of several atoms is in no table
        language == IF Len(lang) = 1 THEN <<language_map(lang[1])>> ELSE lang
        code_content ==
            IF lm.ok
            THEN SubSeq(full, Find(full, <<"\n">>) + 1,
                        RFind(full, <<"\n">> \o Fence) - 1)
            ELSE Group(s, m, 1)
    IN IF Len(language) = 1 /\ language[1] \in SupportedLanguages
       THEN BeginMinted \o <<"{">> \o language \o <<"}", "\n">> \o code_content
            \o <<"\n">> \o EndMinted
       ELSE BeginVerbatim \o <<"\n">> \o code_content \o <<"\n">> \o EndVerbatim

Indented(line) == IsPrefixAt(<<" ", " ", " ", " ">>, line, 1)
IsBlankLine(line) == Len(Strip(line)) = 0

\* the inner loop of the indented-block scanner: the first line index from i
\* on whose line is neither indented nor blank
RECURSIVE IndentedBlockEnd(_, _)
IndentedBlockEnd(lines, i) ==
    IF i <= Len(lines) /\ (Indented(lines[i]) \/ IsBlankLine(lines[i]))
    THEN IndentedBlockEnd(lines, i + 1) ELSE i
RECURSIVE DropTrailingBlank(_)
DropTrailingBlank(ls) ==
    IF Len(ls) > 0 /\ IsBlankLine(ls[Len(ls)])
    THEN DropTrailingBlank(SubSeq(ls, 1, Len(ls) - 1)) ELSE ls
Dedent(line) == IF Indented(line) THEN SubSeq(line, 5, Len(line)) ELSE line

RECURSIVE ScanIndented(_, _, _, _)
ScanIndented(lines, i, in_code_env, result_lines) ==
    IF i > Len(lines) THEN result_lines
    ELSE LET line == lines[i]
         IN IF Contains(line, BeginVerbatim) \/ Contains(line, BeginMinted)
            THEN ScanIndented(lines, i + 1, TRUE, Append(result_lines, line))
            ELSE IF Contains(line, EndVerbatim) \/ Contains(line, EndMinted)
            THEN ScanIndented(lines, i + 1, FALSE, Append(result_lines, line))
            ELSE IF in_code_env
            THEN ScanIndented(lines, i + 1, in_code_env, Append(result_lines, line))
            ELSE IF Indented(line) /\ ~IsBlankLine(line)
            THEN LET j == IndentedBlockEnd(lines, i)
                     code_lines ==
                        DropTrailingBlank([k \in 1..(j - i) |-> Dedent(lines[i + k - 1])])
                 IN ScanIndented(lines, j, in_code_env,
                        IF Len(code_lines) > 0
                        THEN result_lines \o <<BeginVerbatim>> \o code_lines
                             \o <<EndVerbatim>>
                        ELSE result_lines)
            ELSE ScanIndented(lines, i + 1, in_code_env, Append(result_lines, line))

convert_code_blocks_to_latex(text) ==
    LET ms == FindAll(FencedRe, text)
        t1 == Splice(text, ms, [k \in 1..Len(ms) |-> process_fenced_code_block(text, ms[k])])
    IN Join(ScanIndented(Split(t1, "\n"), 1, FALSE, <<>>), "\n")

(***************************************************************************)
(* Placeholders and the protection steps of convert_markdown_to_latex.     *)
(* A protected-content map is the sequence of its values in insertion      *)
(* order: entry n (from 0) has the key Placeholder(n).                     *)
(***************************************************************************)
VerbatimPlaceholder(n) ==
    "XXPROTECTEDVERBATIMXX" \o ToString(n) \o "XXPROTECTEDVERBATIMXX"
BacktickPlaceholder(n) ==
    "XXPROTECTEDBACKTICKXX" \o ToString(n) \o "XXPROTECTEDBACKTICKXX"
MarkdownTablePlaceholder(n) ==
    "XXPROTECTEDMARKDOWNTABLEXX" \o ToString(n) \o "XXPROTECTEDMARKDOWNTABLEXX"
TablePlaceholder(n) ==
    "XXPROTECTEDTABLEXX" \o ToString(n) \o "XXPROTECTEDTABLEXX"

\* r"\\begin\{verbatim\}.*?\\end\{verbatim\}"  (DOTALL)
VerbatimRe == <<Lit(BeginVerbatim), LazyStarNot(Nothing), Lit(EndVerbatim)>>
\* r"\\begin\{minted\}\{[^}]+\}.*?\\end\{minted\}"  (DOTALL)
MintedRe ==
    <<Lit(BeginMinted), Lit(<<"{">>), PlusNot({"}"}), Lit(<<"}">>),
      LazyStarNot(Nothing), Lit(EndMinted)>>
\* r"(?:^[ \t]*\|.*\|[ \t]*$\s* )+"  (MULTILINE)
MarkdownTableRe ==
    <<Many1(<<Bol, Star(Blank), Lit(<<"|">>), StarNot(Newline), Lit(<<"|">>),
              Star(Blank), Eol, Star(Space)>>)>>
\* r"BTBT[^BT]+BTBT" and r"BT[^BT]+BT"
DoubleBacktickRe == <<Lit(<<BT, BT>>), PlusNot({BT}), Lit(<<BT, BT>>)>>
SingleBacktickRe == <<Lit(<<BT>>), PlusNot({BT}), Lit(<<BT>>)>>

\* re.sub(re, protect, content) for a protect callback that stores the
\* match under a placeholder whose index is the size of the map
protect_verbatim_content(re, content, map) ==
    LET ms == FindAll(re, content)
    IN [content |-> Splice(content, ms,
                       [k \in 1..Len(ms) |-> <<VerbatimPlaceholder(Len(map) + k - 1)>>]),
        map |-> map \o [k \in 1..Len(ms) |-> MatchText(content, ms[k])]]
protect_backtick_content(re, content, map) ==
    LET ms == FindAll(re, content)
    IN [content |-> Splice(content, ms,
                       [k \in 1..Len(ms) |-> <<BacktickPlaceholder(Len(map) + k - 1)>>]),
        map |-> map \o [k \in 1..Len(ms) |-> MatchText(content, ms[k])]]
protect_markdown_table(re, content, map) ==
    LET ms == FindAll(re, content)
    IN [content |-> Splice(content, ms,
                       [k \in 1..Len(ms) |-> <<MarkdownTablePlaceholder(Len(map) + k - 1)>>]),
        map |-> map \o [k \in 1..Len(ms) |-> MatchText(content, ms[k])]]
protect_latex_table(re, content, map) ==
    LET ms == FindAll(re, content)
    IN [content |-> Splice(content, ms,
                       [k \in 1..Len(ms) |-> <<TablePlaceholder(Len(map) + k - 1)>>]),
        map |-> map \o [k \in 1..Len(ms) |-> MatchText(content, ms[k])]]

\* for placeholder, original in map.items(): content = content.replace(...)
RECURSIVE RestoreFrom(_, _, _, _)
RestoreFrom(content, map, Placeholder(_), n) ==
    IF n >= Len(map) \/ Len(content) = 0 THEN content
    ELSE RestoreFrom(Replace(content, <<Placeholder(n)>>, map[n + 1]), map,
                     Placeholder, n + 1)

(***************************************************************************)
(* convert_html_comments_to_latex, convert_html_tags_to_latex              *)
(***************************************************************************)
\* r"<!--(.*?)-->"  (DOTALL)
HtmlCommentRe ==
    <<Lit(<<"<", "!", "-", "-">>), Open(1), LazyStarNot(Nothing), Close(1),
      Lit(<<"-", "-", ">">>)>>
replace_comment(comment_content) ==
    LET lines == Split(comment_content, "\n")
        latex_comment_lines ==
            [k \in 1..Len(lines) |->
                IF Len(Strip(lines[k])) > 0 THEN <<"%", " ">> \o Strip(lines[k])
                ELSE <<"%">>]
    IN Join(latex_comment_lines, "\n")
convert_html_comments_to_latex(text) ==
    LET ms == FindAll(HtmlCommentRe, text)
    IN Splice(text, ms, [k \in 1..Len(ms) |-> replace_comment(Group(text, ms[k], 1))])

\* IGNORECASE: a tag name in lower or in upper case
TagName(lower, upper) == In({lower, upper})
\* r"<br\s*/?>"
BrRe == <<Lit(<<"<">>), TagName("br", "BR"), Star(Space), Opt(<<Lit(<<"/">>)>>),
          Lit(<<">">>)>>
\* r"<tag>(.*?)</tag>"  (IGNORECASE | DOTALL)
TagRe(lower, upper) ==
    <<Lit(<<"<">>), TagName(lower, upper), Lit(<<">">>), Open(1),
      LazyStarNot(Nothing), Close(1), Lit(<<"<", "/">>), TagName(lower, upper),
      Lit(<<">">>)>>
\* re.sub(re, r"\\cmd{\1}", text)
WrapGroup1(re, cmd, text) ==
    LET ms == FindAll(re, text)
    IN Splice(text, ms,
              [k \in 1..Len(ms) |-> <<"\\", cmd, "{">> \o Group(text, ms[k], 1) \o <<"}">>])
convert_html_tags_to_latex(text) ==
    LET br == FindAll(BrRe, text)
        t1 == Splice(text, br, [k \in 1..Len(br) |-> <<"\\", "\\">>])
        t2 == WrapGroup1(TagRe("b", "B"), "textbf", t1)
        t3 == WrapGroup1(TagRe("strong", "STRONG"), "textbf", t2)
        t4 == WrapGroup1(TagRe("i", "I"), "textit", t3)
        t5 == WrapGroup1(TagRe("em", "EM"), "textit", t4)
    IN WrapGroup1(TagRe("code", "CODE"), "texttt", t5)

(***************************************************************************)
(* convert_lists_to_latex                                                  *)
(***************************************************************************)
DigitAtoms == {"0", "1", "2", "3", "9", "00", "01", "10", "90"}    \* \d+ words
LeadingSpace(line) == Run(In(Space), line, 1)
\* r"^\s*[-*]\s+" and r"^\s*\d+[.)]\s+", matched at the start of a line
BulletRe == <<Star(Space), In({"-", "*"}), Plus(Space)>>
NumberRe == <<Star(Space), Plus(DigitAtoms), In({".", ")"}), Plus(Space)>>
MarkerRe(ordered) == IF ordered THEN NumberRe ELSE BulletRe
\* rf"^\s{{0,{indent_level + 2}}}[-*]\s+": the marker after at most
\* indent_level + 2 blanks
IsItemLine(line, ordered, indent_level) ==
    /\ M(MarkerRe(ordered), line, 1, NoCaps).ok
    /\ LeadingSpace(line) <= indent_level + 2
item_content(line, ordered) ==
    LET r == M(MarkerRe(ordered), line, 1, NoCaps)
    IN IF r.ok THEN SubSeq(line, r.end, Len(line)) ELSE line

\* the inner loop: collects the items from line i on; gives the index of the
\* first line after the list and the \item lines
RECURSIVE CollectItems(_, _, _, _, _)
CollectItems(lines, i, ordered, indent_level, list_lines) ==
    IF i > Len(lines) THEN [i |-> i, list_lines |-> list_lines]
    ELSE IF IsItemLine(lines[i], ordered, indent_level)
    THEN CollectItems(lines, i + 1, ordered, indent_level,
             Append(list_lines,
                    <<" ", " ", "\\", "item", " ">> \o item_content(lines[i], ordered)))
    ELSE IF IsBlankLine(lines[i])
    THEN IF i + 1 <= Len(lines) /\ IsItemLine(lines[i + 1], ordered, indent_level)
         THEN CollectItems(lines, i + 1, ordered, indent_level, list_lines)
         ELSE [i |-> i + 1, list_lines |-> list_lines]
    ELSE [i |-> i, list_lines |-> list_lines]

ListEnv(ordered) == IF ordered THEN "enumerate" ELSE "itemize"
RECURSIVE ScanLists(_, _, _)
ScanLists(lines, i, result_lines) ==
    IF i > Len(lines) THEN result_lines
    ELSE LET line == lines[i]
             unordered == M(BulletRe, line, 1, NoCaps).ok
             ordered   == M(NumberRe, line, 1, NoCaps).ok
         IN IF unordered \/ ordered
            THEN LET c == CollectItems(lines, i, ~unordered, LeadingSpace(line), <<>>)
                 IN ScanLists(lines, c.i,
                        result_lines
                        \o << <<"\\", "begin", "{", ListEnv(~unordered), "}">> >>
                        \o c.list_lines
                        \o << <<"\\", "end", "{", ListEnv(~unordered), "}">> >>)
            ELSE ScanLists(lines, i + 1, Append(result_lines, line))
convert_lists_to_latex(text) == Join(ScanLists(Split(text, "\n"), 1, <<>>), "\n")

(***************************************************************************)
(* generate_latex_table and its format_cell                                *)
(***************************************************************************)
RECURSIVE SplitKeepFrom(_, _, _, _)
SplitKeepFrom(s, ms, k, pos) ==
    IF k > Len(ms) THEN <<SubSeq(s, pos, Len(s))>>
    ELSE <<SubSeq(s, pos, ms[k].b - 1), MatchText(s, ms[k])>>
         \o SplitKeepFrom(s, ms, k + 1, ms[k].e)
\* re.split(r"(re)", s): the texts between the matches and the matches
SplitKeep(re, s) == SplitKeepFrom(s, FindAll(re, s), 1, 1)

\* a chain of str.replace calls, in the order of pairs
RECURSIVE ReplaceEach(_, _)
ReplaceEach(s, pairs) ==
    IF Len(pairs) = 0 \/ Len(s) = 0 THEN s
    ELSE ReplaceEach(Replace(s, <<pairs[1][1]>>, pairs[1][2]), Tail(pairs))

Esc(c) == <<c, <<"\\", c>> >>
TableCodeEscapes ==
    << <<"\\", <<"\\", "textbackslash", "{", "}">> >>,
       Esc("{"), Esc("}"), Esc("&"), Esc("%"), Esc("$"), Esc("#"),
       <<"^", <<"\\", "textasciicircum", "{", "}">> >>,
       <<"~", <<"\\", "textasciitilde", "{", "}">> >>,
       Esc("_") >>
CodeOnlyEscapes ==
    TableCodeEscapes
    \o << <<"[", <<"\\", "lbrack", "{", "}">> >>,
          <<"]", <<"\\", "rbrack", "{", "}">> >>,
          Esc("@"), <<";", <<";">> >> >>
LiteralCellEscapes ==
    TableCodeEscapes \o <<Esc("["), Esc("]"), Esc("@"), <<";", <<";">> >> >>
OutsideTextttEscapes ==
    << Esc("&"), Esc("%"), Esc("$"), Esc("#"),
       <<"^", <<"\\", "textasciicircum", "{", "}">> >>,
       <<"~", <<"\\", "textasciitilde", "{", "}">> >>,
       Esc("_") >>

Texttt(x) == <<"\\", "texttt", "{">> \o x \o <<"}">>
Textbf(x) == <<"\\", "textbf", "{">> \o x \o <<"}">>
Textit(x) == <<"\\", "textit", "{">> \o x \o <<"}">>

\* re.sub(re, f, s) for a replacement f of the first group
SubGroup1(re, s, F(_)) ==
    LET ms == FindAll(re, s)
    IN Splice(s, ms, [k \in 1..Len(ms) |-> F(Group(s, ms[k], 1))])

\* r"BT([^BT]+)BT", r"BTBT([^BT]+)BTBT", r"BTBT\s*BT([^BT]+)BT\s*BTBT"
CodeSpanRe == <<Lit(<<BT>>), Open(1), PlusNot({BT}), Close(1), Lit(<<BT>>)>>
DoubleCodeSpanRe ==
    <<Lit(<<BT, BT>>), Open(1), PlusNot({BT}), Close(1), Lit(<<BT, BT>>)>>
NestedCodeSpanRe ==
    <<Lit(<<BT, BT>>), Star(Space), Lit(<<BT>>), Open(1), PlusNot({BT}), Close(1),
      Lit(<<BT>>), Star(Space), Lit(<<BT, BT>>)>>
\* r"\\texttt\{[^}]*\}" and r"\\texttt\{"
TextttRe == <<Lit(<<"\\", "texttt", "{">>), StarNot({"}"}), Lit(<<"}">>)>>
\* r"\*\*(.+?)\*\*", r"\*\*([^*]+)\*\*", r"\*([^*]+)\*", r"\*(.+?)\*"
BoldLazyRe ==
    <<Lit(<<"*", "*">>), Open(1), LazyPlusNot(Newline), Close(1), Lit(<<"*", "*">>)>>
BoldRe == <<Lit(<<"*", "*">>), Open(1), PlusNot({"*"}), Close(1), Lit(<<"*", "*">>)>>
ItalicRe == <<Lit(<<"*">>), Open(1), PlusNot({"*"}), Close(1), Lit(<<"*">>)>>
ItalicLazyRe ==
    <<Lit(<<"*">>), Open(1), LazyPlusNot(Newline), Close(1), Lit(<<"*">>)>>
\* r"(?<!\*)\*([^*\s][^*]*[^*\s]|\w)\*(?!\*)": the group is two or more
\* characters that neither start nor end with a blank, or one \w character;
\* a word atom is one or the other
CellItalicRe ==
    <<NegBehind({"*"}), Lit(<<"*">>), Open(1),
      Alt(<< <<NotIn({"*"} \cup Space), StarNot({"*"}), NotIn({"*"} \cup Space)>>,
             <<NotIn(NonWord)>> >>),
      Close(1), Lit(<<"*">>), NegLook(<<Lit(<<"*">>)>>)>>

\* table_processor._escape_latex_special_chars: the replacements in order
LatexSpecialEscapes ==
    TableCodeEscapes
    \o << <<"[", <<"\\", "lbrack", "{", "}">> >>,
          <<"]", <<"\\", "rbrack", "{", "}">> >>,
          Esc("@") >>
_escape_latex_special_chars(text) == ReplaceEach(text, LatexSpecialEscapes)
process_code_only(code_content) == Texttt(ReplaceEach(code_content, CodeOnlyEscapes))
\* re.sub(r"\s+", " ", s)
CollapseSpace(s) ==
    LET ms == FindAll(<<Plus(Space)>>, s)
    IN Splice(s, ms, [k \in 1..Len(ms) |-> <<" ">>])
process_code_in_table(code_content) ==
    Texttt(Strip(CollapseSpace(
        Replace(ReplaceEach(code_content, TableCodeEscapes), <<"\n">>, <<" ">>))))

IsTextttPart(part) == StartsWith(part, <<"\\", "texttt", "{">>)
replace_bold_outside_texttt(text) ==
    LET parts == SplitKeep(TextttRe, text)
    IN Flatten([k \in 1..Len(parts) |->
                  IF IsTextttPart(parts[k]) THEN parts[k]
                  ELSE SubGroup1(BoldRe, parts[k], Textbf)])
replace_italic_outside_texttt(text) ==
    LET parts == SplitKeep(TextttRe, text)
    IN Flatten([k \in 1..Len(parts) |->
                  IF IsTextttPart(parts[k]) THEN parts[k]
                  ELSE SubGroup1(CellItalicRe, parts[k], Textit)])
escape_outside_texttt(text) ==
    LET parts == SplitKeep(TextttRe, text)
    IN Flatten([k \in 1..Len(parts) |->
                  IF IsTextttPart(parts[k]) THEN parts[k]
                  ELSE ReplaceEach(parts[k], OutsideTextttEscapes)])

\* the cell of the markdown syntax table: its code spans, or the whole cell
literal_cell(c1) ==
    IF Len(FindAll(<<Lit(<<"\\", "texttt", "{">>)>>, c1)) = 0
    THEN Texttt(ReplaceEach(c1, LiteralCellEscapes))
    ELSE c1
\* the cell of any other table
regular_cell(cell) ==
    escape_outside_texttt(
        replace_italic_outside_texttt(
            replace_bold_outside_texttt(
                SubGroup1(CodeSpanRe,
                    SubGroup1(DoubleCodeSpanRe, SubGroup1(NestedCodeSpanRe, cell, Texttt),
                              process_code_in_table),
                    process_code_in_table))))
format_restored_cell(cell, is_markdown_example_column, is_header) ==
    IF is_markdown_example_column /\ is_header
    THEN SubGroup1(ItalicRe, SubGroup1(BoldLazyRe, cell, Textbf), Textit)
    ELSE IF is_markdown_example_column
    THEN literal_cell(SubGroup1(CodeSpanRe, cell, process_code_only))
    ELSE regular_cell(cell)
format_cell(cell0, protected_backtick_content, is_markdown_example_column, is_header) ==
    format_restored_cell(
        RestoreFrom(cell0, protected_backtick_content, BacktickPlaceholder, 0),
        is_markdown_example_column, is_header)

\* r'\*\*(.*?)\*\*' and r'\*(.*?)\*', replaced by their group
Unbold(s) ==
    LET Id(x) == x
    IN SubGroup1(<<Lit(<<"*">>), Open(1), LazyStarNot(Newline), Close(1), Lit(<<"*">>)>>,
         SubGroup1(<<Lit(<<"*", "*">>), Open(1), LazyStarNot(Newline), Close(1),
                     Lit(<<"*", "*">>)>>, s, Id), Id)
is_markdown_syntax_table(headers) ==
    /\ Len(headers) > 0
    /\ Unbold(Strip(Lower(headers[1]))) = <<"markdown", " ", "element">>

\* int(rotation) is non-zero; None is the empty sequence
RotationSet(rotation_angle) ==
    Len(rotation_angle) > 0 /\ \E k \in 1..Len(rotation_angle) :
        rotation_angle[k] \notin {"0", "00"}
table_env(width, rotation_angle, is_supplementary) ==
    LET star == IF width = "double" THEN <<"*">> ELSE <<>>
    IN IF RotationSet(rotation_angle) /\ is_supplementary THEN <<"sidewaystable">> \o star
       ELSE IF is_supplementary THEN <<"stable">> \o star
       ELSE <<"table">> \o star
table_position(width, is_supplementary) ==
    IF ~is_supplementary /\ width = "double" THEN <<"[", "!", "ht", "]">>
    ELSE <<"[", "ht", "]">>

\* " & ".join(cells) + the row end
RECURSIVE Join2(_)
Join2(cells) ==
    IF Len(cells) = 0 THEN <<>>
    ELSE IF Len(cells) = 1 THEN cells[1]
    ELSE cells[1] \o <<" ", "&", " ">> \o Join2(Tail(cells))
table_row(cells) == Join2(cells) \o <<" ", "\\", "\\">>

\* the header row first, then the data rows, every cell formatted
format_rows(rows, protected_backtick_content, is_markdown_example_column) ==
    [r \in 1..Len(rows) |->
        [k \in 1..Len(rows[r]) |->
            format_cell(rows[r][k], protected_backtick_content,
                        is_markdown_example_column, r = 1)]]
caption_lines(caption, table_id) ==
    IF Len(caption) > 0
    THEN << <<"\\", "raggedright">>,
            <<"\\", "caption", "{">> \o caption \o <<"}">>,
            <<"\\", "label", "{">>
              \o (IF Len(table_id) > 0 THEN table_id ELSE <<"tab", ":", "comparison">>)
              \o <<"}">> >>
    ELSE <<>>
latex_table_lines(num_cols, formatted_rows, caption, table_id, env, position) ==
    << <<"\\", "begin", "{">> \o env \o <<"}">> \o position,
       <<"\\", "centering">>,
       <<"\\", "begin", "{", "tabular", "}", "{", "|">>
         \o Flatten([k \in 1..num_cols |-> <<"l", "|">>]) \o <<"}">>,
       <<"\\", "hline">> >>
    \o Flatten([r \in 1..Len(formatted_rows) |->
                  <<table_row(formatted_rows[r]), <<"\\", "hline">> >>])
    \o << <<"\\", "end", "{", "tabular", "}">> >>
    \o caption_lines(caption, table_id)
    \o << <<"\\", "end", "{">> \o env \o <<"}">> >>
generate_latex_table(headers, data_rows, caption, width, table_id, protected_backtick_content, rotation_angle, is_supplementary) ==
    Join(latex_table_lines(Len(headers),
             format_rows(<<headers>> \o data_rows, protected_backtick_content,
                         is_markdown_syntax_table(headers)),
             caption, table_id,
             table_env(width, rotation_angle, is_supplementary),
             table_position(width, is_supplementary)),
         "\n")

(***************************************************************************)
(* convert_tables_to_latex                                                 *)
(***************************************************************************)
TableWord == {"Table", "table", "TABLE"}                 \* IGNORECASE
IdRest    == NonWord \ {":", "-"}                        \* not [a-zA-Z0-9_:-]
\* r"^Table\*?\s+\d+[:.]\s*(.*)$"  (IGNORECASE)
LegacyCaptionRe ==
    <<In(TableWord), Opt(<<Lit(<<"*">>)>>), Plus(Space), Plus(DigitAtoms),
      In({":", "."}), Star(Space), Open(1), StarNot(Newline), Close(1), Eos>>
\* r"^Table\*?\s+\d+[:.]\s*"
LegacyCaptionHeadRe ==
    <<In(TableWord), Opt(<<Lit(<<"*">>)>>), Plus(Space), Plus(DigitAtoms),
      In({":", "."}), Star(Space)>>
\* r"^\{#[a-zA-Z0-9_:-]+.*\}\s*\*\*.*\*\*"
NewCaptionLineRe ==
    <<Lit(<<"{", "#">>), Rep(IdRest, TRUE, 1, TRUE), StarNot(Newline), Lit(<<"}">>),
      Star(Space), Lit(<<"*", "*">>), StarNot(Newline), Lit(<<"*", "*">>)>>
\* r"^\{#([a-zA-Z0-9_:-]+)([^}]*)\}\s*(.+)$"
NewCaptionRe ==
    <<Lit(<<"{", "#">>), Open(1), Rep(IdRest, TRUE, 1, TRUE), Close(1),
      Open(2), StarNot({"}"}), Close(2), Lit(<<"}">>), Star(Space),
      Open(3), PlusNot(Newline), Close(3), Eos>>
\* r"rotate=(\d+)"
RotateRe == <<Lit(<<"rotate", "=">>), Open(1), Plus(DigitAtoms), Close(1)>>

IsTableRow(line) ==
    /\ Contains(line, <<"|">>)
    /\ StartsWith(Strip(line), <<"|">>)
    /\ EndsWith(Strip(line), <<"|">>)
\* [cell.strip() for cell in line.split("|")[1:-1]]
RowCells(line) ==
    LET parts == Split(line, "|")
    IN [k \in 1..(Len(parts) - 2) |-> Strip(parts[k + 1])]
\* cells padded to num_cols and not truncated
FitCells_padded(cells, num_cols) ==
    [k \in 1..Max({num_cols, Len(cells)}) |-> IF k <= Len(cells) THEN cells[k] ELSE <<>>]
\* pad with empty cells, then cells[:num_cols]
FitCells(cells, num_cols) ==
    [k \in 1..num_cols |-> IF k <= Len(cells) THEN cells[k] ELSE <<>>]

\* the data-row loop: the index of the first line that is no row of the table
RECURSIVE DataRowsEnd(_, _)
DataRowsEnd(lines, i) ==
    IF i <= Len(lines) /\ ~IsBlankLine(lines[i]) /\ IsTableRow(Strip(lines[i]))
    THEN DataRowsEnd(lines, i + 1) ELSE i

\* a word that starts with "table" once lower-cased
StartsWithTable(line) ==
    Len(line) > 0 /\ LowerAtom(line[1]) \in {"table", "tables"}

\* the line before the table, when it is a caption "Table 1: ..."
has_caption_line(prev) == M(LegacyCaptionHeadRe, prev, 1, NoCaps).ok
legacy_width(prev) ==
    IF has_caption_line(prev) /\ StartsWith(Lower(prev), <<"table", "*">>)
    THEN "double" ELSE "single"
legacy_caption(prev) ==
    LET cm == M(LegacyCaptionRe, prev, 1, NoCaps)
    IN IF has_caption_line(prev) /\ cm.ok
       THEN Strip(SubSeq(prev, cm.caps[1][1], cm.caps[1][2] - 1)) ELSE <<>>
\* the caption line "{#id attributes} **caption**" after the blank line at j
NoNewCaption ==
    [parsed |-> FALSE, table_id |-> <<>>, attributes_str |-> <<>>, caption_text |-> <<>>]
parse_new_caption(caption_line) ==
    LET nm == M(NewCaptionRe, caption_line, 1, NoCaps)
    IN IF nm.ok
       THEN [parsed |-> TRUE,
             table_id |-> SubSeq(caption_line, nm.caps[1][1], nm.caps[1][2] - 1),
             attributes_str |->
                 Strip(SubSeq(caption_line, nm.caps[2][1], nm.caps[2][2] - 1)),
             caption_text |-> SubSeq(caption_line, nm.caps[3][1], nm.caps[3][2] - 1)]
       ELSE NoNewCaption
new_caption(lines, j) ==
    IF /\ j <= Len(lines)
       /\ IsBlankLine(lines[j])
       /\ j + 1 <= Len(lines)
       /\ M(NewCaptionLineRe, Strip(lines[j + 1]), 1, NoCaps).ok
    THEN parse_new_caption(Strip(lines[j + 1]))
    ELSE NoNewCaption
rotation_of(attributes_str) ==
    LET rot == FindAll(RotateRe, attributes_str)
    IN IF Len(rot) > 0 THEN Group(attributes_str, rot[1], 1) ELSE <<>>
caption_of(new_format_caption, table_caption) ==
    IF Len(new_format_caption) > 0 THEN new_format_caption ELSE table_caption
table_data_rows(lines, i, j, num_cols) ==
    [k \in 1..(j - (i + 2)) |->
        FitCells(RowCells(Strip(lines[i + 2 + k - 1])), num_cols)]
\* the caption line already copied to the result is replaced by the table
kept_lines(result_lines, table_caption) ==
    IF /\ Len(table_caption) > 0
       /\ Len(result_lines) > 0
       /\ StartsWithTable(Strip(result_lines[Len(result_lines)]))
    THEN SubSeq(result_lines, 1, Len(result_lines) - 1)
    ELSE result_lines
\* the table whose header row is line i and whose rows end before line j
table_at(lines, i, j, prev, nc, protected_backtick_content, is_supplementary) ==
    generate_latex_table(RowCells(Strip(lines[i])),
        table_data_rows(lines, i, j, Len(RowCells(Strip(lines[i])))),
        caption_of(SubGroup1(ItalicRe, SubGroup1(BoldRe, nc.caption_text, Textbf), Textit),
                   legacy_caption(prev)),
        legacy_width(prev), nc.table_id, protected_backtick_content,
        rotation_of(nc.attributes_str), is_supplementary)
table_result(result_lines, prev, latex_table, is_supplementary) ==
    kept_lines(result_lines, legacy_caption(prev)) \o Split(latex_table, "\n")
    \o (IF is_supplementary THEN << <<"\\", "newpage">> >> ELSE <<>>)
is_table_start(lines, i) ==
    /\ IsTableRow(lines[i])
    /\ i + 1 <= Len(lines)
    /\ Contains(lines[i + 1], <<"|">>)
    /\ Contains(lines[i + 1], <<"-">>)
previous_line(lines, i) == IF i > 1 THEN Strip(lines[i - 1]) ELSE <<>>

RECURSIVE ScanTables(_, _, _, _, _)
ScanTable(lines, i, j, prev, nc, result_lines, protected_backtick_content, is_supplementary) ==
    ScanTables(lines, IF nc.parsed THEN j + 2 ELSE j,
        table_result(result_lines, prev,
            table_at(lines, i, j, prev, nc, protected_backtick_content, is_supplementary),
            is_supplementary),
        protected_backtick_content, is_supplementary)
ScanTables(lines, i, result_lines, protected_backtick_content, is_supplementary) ==
    IF i > Len(lines) THEN result_lines
    ELSE IF is_table_start(lines, i)
    THEN ScanTable(lines, i, DataRowsEnd(lines, i + 2), previous_line(lines, i),
                   new_caption(lines, DataRowsEnd(lines, i + 2)), result_lines,
                   protected_backtick_content, is_supplementary)
    ELSE ScanTables(lines, i + 1, Append(result_lines, lines[i]),
                    protected_backtick_content, is_supplementary)

convert_tables_to_latex(text, protected_backtick_content, is_supplementary) ==
    Join(ScanTables(Split(text, "\n"), 1, <<>>, protected_backtick_content,
                    is_supplementary), "\n")

(***************************************************************************)
(* convert_figures_to_latex, convert_figure_references_to_latex            *)
(***************************************************************************)
\* f"__CODE_BLOCK_{n}__"
CodeBlockPlaceholder(n) ==
    <<"_", "_", "CODE", "_", "BLOCK", "_", ToString(n), "_", "_">>
\* r"BTBTBT.*?BTBTBT"  (DOTALL)
FencedSpanRe == <<Lit(Fence), LazyStarNot(Nothing), Lit(Fence)>>
\* re.sub(re, protect, text) for a protect callback that appends the match
\* to protected_blocks
protect_inline_code(re, text, protected_blocks) ==
    LET ms == FindAll(re, text)
    IN [text |-> Splice(text, ms,
                    [k \in 1..Len(ms) |->
                        CodeBlockPlaceholder(Len(protected_blocks) + k - 1)]),
        protected_blocks |->
            protected_blocks \o [k \in 1..Len(ms) |-> MatchText(text, ms[k])]]
\* for i, block in enumerate(protected_blocks): text = text.replace(...)
RECURSIVE RestoreBlocks(_, _, _)
RestoreBlocks(text, protected_blocks, n) ==
    IF n >= Len(protected_blocks) \/ Len(text) = 0 THEN text
    ELSE RestoreBlocks(Replace(text, CodeBlockPlaceholder(n), protected_blocks[n + 1]),
                       protected_blocks, n + 1)

IdChars == NonWord \ {":", "-"}                          \* not [a-zA-Z0-9_:-]
\* r"#([a-zA-Z0-9_:-]+)"
FigureIdRe == <<Lit(<<"#">>), Open(1), Rep(IdChars, TRUE, 1, TRUE), Close(1)>>
\* r'(\w+)=(["\'])([^"\']*)\2': the value is group 2 here, the quote has none
FigureAttrRe ==
    <<Open(1), W1, Close(1), Lit(<<"=", "\"">>), Open(2), StarNot({"\""}), Close(2),
      Lit(<<"\"">>)>>
\* attributes.get(key, default) after parse_figure_attributes: the last
\* key="value" pair with that key wins
RECURSIVE LastAttr(_, _, _, _, _)
LastAttr(attr_string, ms, k, key, default) ==
    IF k = 0 THEN default
    ELSE IF Group(attr_string, ms[k], 1) = key THEN Group(attr_string, ms[k], 2)
    ELSE LastAttr(attr_string, ms, k - 1, key, default)
parse_figure_attributes(attr_string) ==
    LET id_match == FindAll(FigureIdRe, attr_string)
        ms == FindAll(FigureAttrRe, attr_string)
        Get(key, default) == LastAttr(attr_string, ms, Len(ms), key, default)
    IN [has_id |-> Len(id_match) > 0
                   \/ \E k \in 1..Len(ms) : Group(attr_string, ms[k], 1) = <<"id">>,
        id |-> Get(<<"id">>,
                   IF Len(id_match) > 0 THEN Group(attr_string, id_match[1], 1)
                   ELSE <<>>),
        tex_position |-> Get(<<"tex", "_", "position">>, <<"ht">>),
        width |-> Get(<<"width">>, <<"\\", "linewidth">>)]

latex_path(path) ==
    LET p == Replace(path, <<"FIGURES", "/">>, <<"Figures", "/">>)
    IN IF EndsWith(p, <<".", "svg">>) THEN Replace(p, <<".", "svg">>, <<".", "png">>)
       ELSE p
latex_figure(position, width0, path, caption, has_id, id) ==
    LET width == IF StartsWith(width0, <<"\\">>) THEN width0
                 ELSE width0 \o <<"\\", "linewidth">>
    IN <<"\\", "begin", "{", "figure", "}", "[">> \o position \o <<"]", "\n">>
       \o <<"\\", "centering", "\n">>
       \o <<"\\", "includegraphics", "[", "width", "=">> \o width \o <<"]", "{">>
       \o latex_path(path) \o <<"}", "\n">>
       \o <<"\\", "caption", "{">> \o caption \o <<"}">>
       \o (IF has_id THEN <<"\n", "\\", "label", "{">> \o id \o <<"}">> ELSE <<>>)
       \o <<"\n", "\\", "end", "{", "figure", "}">>

process_new_figure_format_full(path, attr_string, caption0) ==
    LET attributes == parse_figure_attributes(attr_string)
        caption == SubGroup1(ItalicRe, SubGroup1(BoldRe, Strip(caption0), Textbf), Textit)
    IN latex_figure(attributes.tex_position, attributes.width, path, caption,
                    attributes.has_id, attributes.id)
process_figure_with_attributes(caption, path, attr_string) ==
    LET attributes == parse_figure_attributes(attr_string)
    IN latex_figure(attributes.tex_position, attributes.width, path, caption,
                    attributes.has_id, attributes.id)
process_figure_without_attributes(caption, path) ==
    latex_figure(<<"ht">>, <<"\\", "linewidth">>, path, caption, FALSE, <<>>)

\* r"!\[\]\(([^)]+)\)\s*\n\{([^}]+)\}\s*(.+?)(?=\n\n|\n$|$)"  (MULTILINE | DOTALL)
NewFigureRe ==
    <<Lit(<<"!", "[", "]", "(">>), Open(1), PlusNot({")"}), Close(1), Lit(<<")">>),
      Star(Space), Lit(<<"\n", "{">>), Open(2), PlusNot({"}"}), Close(2), Lit(<<"}">>),
      Star(Space), Open(3), LazyPlusNot(Nothing), Close(3),
      Look(<<Alt(<< <<Lit(<<"\n", "\n">>)>>, <<Lit(<<"\n">>), Eol>>, <<Eol>> >>)>>)>>
\* r"!\[([^\]]*)\]\(([^)]+)\)\{([^}]+)\}"
FigureWithAttributesRe ==
    <<Lit(<<"!", "[">>), Open(1), StarNot({"]"}), Close(1), Lit(<<"]", "(">>),
      Open(2), PlusNot({")"}), Close(2), Lit(<<")", "{">>),
      Open(3), PlusNot({"}"}), Close(3), Lit(<<"}">>)>>
\* r"!\[([^\]]*)\]\(([^)]+)\)"
FigureRe ==
    <<Lit(<<"!", "[">>), Open(1), StarNot({"]"}), Close(1), Lit(<<"]", "(">>),
      Open(2), PlusNot({")"}), Close(2), Lit(<<")">>)>>

\* the three figure syntaxes, each applied to the text the one before left
new_figure_format(text) ==
    LET ms == FindAll(NewFigureRe, text)
    IN Splice(text, ms,
              [k \in 1..Len(ms) |->
                  process_new_figure_format_full(Group(text, ms[k], 1),
                      Group(text, ms[k], 2), Group(text, ms[k], 3))])
figures_with_attributes(text) ==
    LET ms == FindAll(FigureWithAttributesRe, text)
    IN Splice(text, ms,
              [k \in 1..Len(ms) |->
                  process_figure_with_attributes(Group(text, ms[k], 1),
                      Group(text, ms[k], 2), Group(text, ms[k], 3))])
figures_without_attributes(text) ==
    LET ms == FindAll(FigureRe, text)
    IN Splice(text, ms,
              [k \in 1..Len(ms) |->
                  process_figure_without_attributes(Group(text, ms[k], 1),
                      Group(text, ms[k], 2))])
\* the conversions on the text whose code spans are protected
convert_protected_figures(p) ==
    RestoreBlocks(
        figures_without_attributes(figures_with_attributes(new_figure_format(p.text))),
        p.protected_blocks, 0)
protect_inline_code_again(re, p) == protect_inline_code(re, p.text, p.protected_blocks)
\* re.sub(r"(\\end\{figure\})", r"\1\n\\newpage", latex) when is_supplementary
figure_newpages(text, is_supplementary) ==
    IF is_supplementary
    THEN Replace(text, <<"\\", "end", "{", "figure", "}">>,
                 <<"\\", "end", "{", "figure", "}", "\n", "\\", "newpage">>)
    ELSE text
convert_figures_to_latex(text, is_supplementary) ==
    figure_newpages(
        convert_protected_figures(
            protect_inline_code_again(FencedSpanRe,
                protect_inline_code(SingleBacktickRe, text, <<>>))),
        is_supplementary)

(***************************************************************************)
(* figure_processor.py: the figure conversion of the converters package    *)
(***************************************************************************)
\* s.split(sep)[-1]: the text after the last sep, or all of s
AfterLast(s, sep) ==
    LET cuts == {i \in 1..Len(s) : IsPrefixAt(sep, s, i)}
    IN IF cuts = {} THEN s
       ELSE SubSeq(s, (CHOOSE i \in cuts : \A j \in cuts : j <= i) + Len(sep), Len(s))
basename(path) == AfterLast(path, <<"/">>)
\* where the extension of a file name starts: its last dot that is not one
\* of its leading dots; 0 when it has no extension
ExtensionStart(name) ==
    LET dots == {i \in 1..Len(name) :
                    name[i] = "." /\ \E j \in 1..(i - 1) : name[j] # "."}
    IN IF dots = {} THEN 0 ELSE CHOOSE i \in dots : \A j \in dots : j <= i
\* os.path.splitext(p)[0] and os.path.splitext(p)[1]
splitext_root(p) ==
    IF ExtensionStart(basename(p)) = 0 THEN p
    ELSE SubSeq(p, 1, Len(p) - Len(basename(p)) + ExtensionStart(basename(p)) - 1)
splitext_ext(p) ==
    IF ExtensionStart(basename(p)) = 0 THEN <<>>
    ELSE SubSeq(basename(p), ExtensionStart(basename(p)), Len(basename(p)))
\* Figures/Name.ext becomes Figures/Name/Name.ext
subdirectory_path(p) ==
    IF Contains(AfterLast(p, <<"Figures", "/">>), <<"/">>) THEN p
    ELSE <<"Figures", "/">> \o splitext_root(basename(p)) \o <<"/">>
         \o splitext_root(basename(p)) \o splitext_ext(p)
svg_to_png(p) ==
    IF EndsWith(p, <<".", "svg">>)
    THEN Replace(p, <<".", "svg">>, <<".", "png">>)
    ELSE p
create_latex_path(path) ==
    svg_to_png(subdirectory_path(Replace(path, <<"FIGURES", "/">>, <<"Figures", "/">>)))
NoAttributes ==
    [has_id |-> FALSE, id |-> <<>>, tex_position |-> <<"ht">>,
     width |-> <<"\\", "linewidth">>]
create_latex_figure_environment(path, caption, attributes) ==
    <<"\\", "begin", "{", "figure", "}", "[">> \o attributes.tex_position \o <<"]", "\n">>
    \o <<"\\", "centering", "\n">>
    \o <<"\\", "includegraphics", "[", "width", "=">> \o attributes.width
    \o (IF StartsWith(attributes.width, <<"\\">>) THEN <<>> ELSE <<"\\", "linewidth">>)
    \o <<"]", "{">> \o create_latex_path(path) \o <<"}", "\n">>
    \o <<"\\", "caption", "{">>
    \o SubGroup1(ItalicRe, SubGroup1(BoldRe, caption, Textbf), Textit) \o <<"}">>
    \o (IF attributes.has_id THEN <<"\n", "\\", "label", "{">> \o attributes.id \o <<"}">>
        ELSE <<>>)
    \o <<"\n", "\\", "end", "{", "figure", "}">>
_process_new_figure_format(text) ==
    LET ms == FindAll(NewFigureRe, text)
    IN Splice(text, ms,
              [k \in 1..Len(ms) |->
                  create_latex_figure_environment(Group(text, ms[k], 1),
                      Strip(Group(text, ms[k], 3)),
                      parse_figure_attributes(Group(text, ms[k], 2)))])
_process_figure_with_attributes(text) ==
    LET ms == FindAll(FigureWithAttributesRe, text)
    IN Splice(text, ms,
              [k \in 1..Len(ms) |->
                  create_latex_figure_environment(Group(text, ms[k], 2),
                      Group(text, ms[k], 1),
                      parse_figure_attributes(Group(text, ms[k], 3)))])
_process_figure_without_attributes(text) ==
    LET ms == FindAll(FigureRe, text)
    IN Splice(text, ms,
              [k \in 1..Len(ms) |->
                  create_latex_figure_environment(Group(text, ms[k], 2),
                      Group(text, ms[k], 1), NoAttributes)])
process_protected_figures(p) ==
    RestoreBlocks(
        _process_figure_without_attributes(
            _process_figure_with_attributes(_process_new_figure_format(p.text))),
        p.protected_blocks, 0)
\* convert_figures_to_latex of figure_processor.py; is_supplementary is not used
figure_processor_convert_figures_to_latex(text, is_supplementary) ==
    process_protected_figures(
        protect_inline_code_again(FencedSpanRe,
            protect_inline_code(SingleBacktickRe, text, <<>>)))

KeyChars == NonWord \ {"-"}                              \* not [a-zA-Z0-9_-]
\* r"@fig:([a-zA-Z0-9_-]+)" and r"@sfig:([a-zA-Z0-9_-]+)"
FigureRefRe(prefix) ==
    <<Lit(<<"@", prefix, ":">>), Open(1), Rep(KeyChars, TRUE, 1, TRUE), Close(1)>>
\* re.sub(re, r"\\ref{prefix:\1}", text)
FigureRef(prefix, text) ==
    LET ms == FindAll(FigureRefRe(prefix), text)
    IN Splice(text, ms,
              [k \in 1..Len(ms) |->
                  <<"\\", "ref", "{", prefix, ":">> \o Group(text, ms[k], 1) \o <<"}">>])
convert_figure_references_to_latex(text) == FigureRef("sfig", FigureRef("fig", text))

(***************************************************************************)
(* Headers, citations, code spans, bold and italic, links, underscores     *)
(***************************************************************************)
\* r"^# (.+)$", r"^## (.+)$", ...  (MULTILINE)
HeaderRe(hashes) ==
    <<Bol, Lit(hashes \o <<" ">>), Open(1), PlusNot(Newline), Close(1), Eol>>
convert_headers(content) ==
    LET t1 == WrapGroup1(HeaderRe(<<"#">>), "section", content)
        t2 == WrapGroup1(HeaderRe(<<"#", "#">>), "subsection", t1)
        t3 == WrapGroup1(HeaderRe(<<"#", "#", "#">>), "subsubsection", t2)
    IN WrapGroup1(HeaderRe(<<"#", "#", "#", "#">>), "paragraph", t3)

\* r"\[(@[^]]+)\]"
MultipleCitationsRe ==
    <<Lit(<<"[">>), Open(1), Lit(<<"@">>), PlusNot({"]"}), Close(1), Lit(<<"]">>)>>
\* cite.strip().lstrip("@")
clean_cite(cite) ==
    LET c == Strip(cite) IN SubSeq(c, Run(In({"@"}), c, 1) + 1, Len(c))
process_multiple_citations(citations_text) ==
    LET NonEmpty(c) == Len(c) > 0
        cites == Split(citations_text, ";")
        citations == SelectSeq([k \in 1..Len(cites) |-> clean_cite(cites[k])], NonEmpty)
    IN <<"\\", "cite", "{">> \o Join(citations, ",") \o <<"}">>
Cite(key) == <<"\\", "cite", "{">> \o key \o <<"}">>
\* r"@(?!fig:)([a-zA-Z0-9_-]+)"
SingleCitationRe ==
    <<Lit(<<"@">>), NegLook(<<Lit(<<"fig", ":">>)>>), Open(1),
      Rep(KeyChars, TRUE, 1, TRUE), Close(1)>>
\* r"@([a-zA-Z0-9_-]+)"
PlainCitationRe == <<Lit(<<"@">>), Open(1), Rep(KeyChars, TRUE, 1, TRUE), Close(1)>>
process_citations_in_text(text) ==
    SubGroup1(SingleCitationRe,
              SubGroup1(MultipleCitationsRe, text, process_multiple_citations), Cite)
\* the content is split at the markdown-table placeholders and only the
\* parts between them are processed
process_citations_outside_tables(content, protected_markdown_tables) ==
    IF Len(protected_markdown_tables) = 0 THEN process_citations_in_text(content)
    ELSE LET table_placeholders ==
                 {MarkdownTablePlaceholder(n - 1) : n \in 1..Len(protected_markdown_tables)}
             parts == SplitKeep(<<In(table_placeholders)>>, content)
         IN Flatten([k \in 1..Len(parts) |->
                       IF k % 2 = 0 THEN parts[k]
                       ELSE process_citations_in_text(parts[k])])
(***************************************************************************)
(* supplementary_note_processor.process_supplementary_notes                *)
(***************************************************************************)
\* r"\\subsection\{Supplementary Notes\}"
NotesHeading == <<"\\", "subsection", "{", "Supplementary", " ", "Notes", "}">>
excluded_headers ==
    {<<"file", " ", "structure", " ", "and", " ", "organisation">>,
     <<"file", " ", "structure", " ", "and", " ", "organization">>}
\* re.sub(r"[^\w\s-]", "", title.lower()), re.sub(r"[-\s]+", "_", label).strip("_")
note_label(title) ==
    LET Kept(a) == IsWord(a) \/ a \in Space \/ a = "-"
        label == SelectSeq(Lower(title), Kept)
        ms == FindAll(<<Plus(Space \cup {"-"})>>, label)
        joined == Splice(label, ms, [k \in 1..Len(ms) |-> <<"_">>])
        inner == {j \in 1..Len(joined) : joined[j] # "_"}
    IN IF inner = {} THEN <<>> ELSE SubSeq(joined, Min(inner), Max(inner))
\* note_counter after the header k: the headers up to k that were not skipped
note_counter_every_header(skipped, k) == k
note_counter(skipped, k) == Cardinality({j \in 1..k : ~skipped[j]})
replace_note_header(title, skipped, k) ==
    IF skipped[k]
    THEN <<"\\", "subsubsection", "{">> \o title \o <<"}">>
    ELSE <<"\\", "subsection", "{", "Supplementary", " ", "Note", " ",
           ToString(note_counter(skipped, k)), ":", " ">> \o title \o <<"}">>
         \o <<"\\", "label", "{", "snote", ":">> \o note_label(title) \o <<"}">>
process_notes_section(notes_section) ==
    LET ms == FindAll(HeaderRe(<<"#", "#", "#">>), notes_section)
        titles == [k \in 1..Len(ms) |-> Strip(Group(notes_section, ms[k], 1))]
        skipped == [k \in 1..Len(ms) |-> Lower(titles[k]) \in excluded_headers]
    IN Splice(notes_section, ms,
              [k \in 1..Len(ms) |-> replace_note_header(titles[k], skipped, k)])
process_supplementary_notes(content) ==
    IF ~Contains(content, NotesHeading) THEN content
    ELSE SubSeq(content, 1, Find(content, NotesHeading) - 1) \o NotesHeading
         \o process_notes_section(
                SubSeq(content, Find(content, NotesHeading) + Len(NotesHeading),
                       Len(content)))

\* the two substitutions of convert_citations_to_latex in the other order
convert_citations_bare_first(text) ==
    SubGroup1(MultipleCitationsRe, SubGroup1(PlainCitationRe, text, Cite),
              process_multiple_citations)
convert_citations_to_latex(text) ==
    SubGroup1(PlainCitationRe,
              SubGroup1(MultipleCitationsRe, text, process_multiple_citations), Cite)

\* code spans to \texttt, with the underscores held in a placeholder word
process_code_blocks(code_content) ==
    Texttt(Replace(code_content, <<"_">>, <<"XUNDERSCOREX">>))
convert_code_spans(content, protected_backtick_content) ==
    LET restored == RestoreFrom(content, protected_backtick_content, BacktickPlaceholder, 0)
    IN SubGroup1(CodeSpanRe,
                 SubGroup1(DoubleCodeSpanRe, restored, process_code_blocks),
                 process_code_blocks)

\* the words that are not made of letters only: numbers, the underscore and
\* the placeholders of the protection steps
MaxPlaceholders == 9
PlaceholderAtoms ==
    UNION {{VerbatimPlaceholder(n), BacktickPlaceholder(n),
            MarkdownTablePlaceholder(n), TablePlaceholder(n)} : n \in 0..MaxPlaceholders}
NonLetters == NonWord \cup DigitAtoms \cup {"_"} \cup PlaceholderAtoms
\* r"(\\[a-zA-Z]+\{[^}]*\})"
LatexCommandRe ==
    <<Lit(<<"\\">>), Rep(NonLetters, TRUE, 1, TRUE), Lit(<<"{">>), StarNot({"}"}),
      Lit(<<"}">>)>>
\* bold and italic on the parts between the LaTeX commands
convert_bold_italic(content) ==
    LET parts == SplitKeep(LatexCommandRe, content)
    IN Flatten([k \in 1..Len(parts) |->
                  IF k % 2 = 0 THEN parts[k]
                  ELSE SubGroup1(ItalicLazyRe, SubGroup1(BoldLazyRe, parts[k], Textbf),
                                 Textit)])

escape_url_for_latex(url) ==
    Replace(Replace(url, <<"#">>, <<"\\", "#">>), <<"%">>, <<"\\", "%">>)
process_link(link_text, url) ==
    IF Strip(link_text) = Strip(url)
    THEN <<"\\", "url", "{">> \o escape_url_for_latex(url) \o <<"}">>
    ELSE <<"\\", "href", "{">> \o escape_url_for_latex(url) \o <<"}", "{">>
         \o link_text \o <<"}">>
process_bare_url(url) == <<"\\", "url", "{">> \o escape_url_for_latex(url) \o <<"}">>
\* r"\[([^\]]+)\]\(([^)]+)\)"
LinkRe ==
    <<Lit(<<"[">>), Open(1), PlusNot({"]"}), Close(1), Lit(<<"]", "(">>),
      Open(2), PlusNot({")"}), Close(2), Lit(<<")">>)>>
\* r"\\url\{[^}]+\}" and r"\\href\{[^}]+\}\{[^}]+\}"
LatexUrlRe == <<Lit(<<"\\", "url", "{">>), PlusNot({"}"}), Lit(<<"}">>)>>
LatexHrefRe ==
    <<Lit(<<"\\", "href", "{">>), PlusNot({"}"}), Lit(<<"}", "{">>), PlusNot({"}"}),
      Lit(<<"}">>)>>
\* r"https?://[^\s\}>\]]+"
BareUrlRe ==
    <<In({"http", "https"}), Lit(<<":", "/", "/">>),
      PlusNot(Space \cup {"}", ">", "]"})>>
\* f"__PROTECTED_LATEX_CMD_{n}__"
LatexCmdPlaceholder(n) ==
    <<"_", "_", "PROTECTED", "_", "LATEX", "_", "CMD", "_", ToString(n), "_", "_">>
protect_latex_command(re, text, protected_commands) ==
    LET ms == FindAll(re, text)
    IN [text |-> Splice(text, ms,
                    [k \in 1..Len(ms) |->
                        LatexCmdPlaceholder(Len(protected_commands) + k - 1)]),
        protected_commands |->
            protected_commands \o [k \in 1..Len(ms) |-> MatchText(text, ms[k])]]
RECURSIVE RestoreCommands(_, _, _)
RestoreCommands(text, protected_commands, n) ==
    IF n >= Len(protected_commands) \/ Len(text) = 0 THEN text
    ELSE RestoreCommands(
             Replace(text, LatexCmdPlaceholder(n), protected_commands[n + 1]),
             protected_commands, n + 1)
markdown_links(text) ==
    LET ms == FindAll(LinkRe, text)
    IN Splice(text, ms,
              [k \in 1..Len(ms) |->
                  process_link(Group(text, ms[k], 1), Group(text, ms[k], 2))])
protect_latex_command_again(re, p) == protect_latex_command(re, p.text, p.protected_commands)
bare_urls(text) ==
    LET ms == FindAll(BareUrlRe, text)
    IN Splice(text, ms, [k \in 1..Len(ms) |-> process_bare_url(MatchText(text, ms[k]))])
convert_protected_urls(p) == RestoreCommands(bare_urls(p.text), p.protected_commands, 0)
convert_links_to_latex(text) ==
    convert_protected_urls(
        protect_latex_command_again(LatexHrefRe,
            protect_latex_command(LatexUrlRe, markdown_links(text), <<>>)))

Underscore(s) == Replace(s, <<"_">>, <<"XUNDERSCOREX">>)
\* r"\(([^)]+)\)"
ParenRe == <<Lit(<<"(">>), Open(1), PlusNot({")"}), Close(1), Lit(<<")">>)>>
escape_file_paths_in_parens(paren_content) ==
    IF \/ Contains(paren_content, <<".">>) /\ Contains(paren_content, <<"_">>)
       \/ \E ext \in {"md", "bib", "tex", "py", "csv"} :
              EndsWith(paren_content, <<".", ext>>)
    THEN <<"(">> \o Underscore(paren_content) \o <<")">>
    ELSE <<"(">> \o paren_content \o <<")">>
FileExtensions ==
    {"md", "yml", "yaml", "bib", "tex", "py", "csv", "pdf", "png", "svg", "jpg"}
\* r"\b[\w]+_[\w._]*\.(md|yml|yaml|bib|tex|py|csv|pdf|png|svg|jpg)\b"
FilenameRe ==
    <<Wb, W1, Lit(<<"_">>), Rep(NonWord \ {"."}, TRUE, 0, TRUE), Lit(<<".">>),
      In(FileExtensions), Wb>>
\* the words of capital letters only
UpperAtoms ==
    {"A", "B", "I", "X", "CONFIG", "MAIN", "FIGURES", "TABLE", "YAML", "CODE",
     "BLOCK", "PROTECTED", "LATEX", "CMD", "XUNDERSCOREX", "BR", "STRONG", "EM"}
\* r"\b\d+_[A-Z_]+\b"
NumberedFileRe ==
    <<Wb, Plus(DigitAtoms), Lit(<<"_">>), Plus(UpperAtoms \cup {"_"}), Wb>>
\* re.sub(re, escape_filenames, text)
escape_filenames(re, text) ==
    LET ms == FindAll(re, text)
    IN Splice(text, ms, [k \in 1..Len(ms) |-> Underscore(MatchText(text, ms[k]))])
escape_special_characters(text) ==
    LET t1 == SubGroup1(ParenRe, text, escape_file_paths_in_parens)
        t2 == escape_filenames(FilenameRe, t1)
        t3 == escape_filenames(NumberedFileRe, t2)
    IN Replace(t3, <<"XUNDERSCOREX">>, <<"\\", "_">>)

(***************************************************************************)
(* convert_markdown_to_latex: the steps of the function on a conversion    *)
(* state st, the record of the content and of the four protected-content   *)
(* maps.                                                                   *)
(***************************************************************************)
NewConversion(content) ==
    [content |-> content, verbatim |-> <<>>, backticks |-> <<>>,
     markdown_tables |-> <<>>, tables |-> <<>>]

code_blocks_step(st) ==
    [st EXCEPT !.content = convert_code_blocks_to_latex(st.content)]
protect_verbatim_step(st) ==
    LET p1 == protect_verbatim_content(VerbatimRe, st.content, st.verbatim)
        p2 == protect_verbatim_content(MintedRe, p1.content, p1.map)
    IN [st EXCEPT !.content = p2.content, !.verbatim = p2.map]
protect_markdown_tables_step(st) ==
    LET p == protect_markdown_table(MarkdownTableRe, st.content, st.markdown_tables)
    IN [st EXCEPT !.content = p.content, !.markdown_tables = p.map]
protect_backticks_step(st) ==
    LET p1 == protect_backtick_content(DoubleBacktickRe, st.content, st.backticks)
        p2 == protect_backtick_content(SingleBacktickRe, p1.content, p1.map)
    IN [st EXCEPT !.content = p2.content, !.backticks = p2.map]
html_step(st) ==
    [st EXCEPT !.content =
        convert_html_tags_to_latex(convert_html_comments_to_latex(st.content))]
lists_step(st) == [st EXCEPT !.content = convert_lists_to_latex(st.content)]

\* the backtick placeholders of the table rows, restored line by line
restore_table_rows(content, protected_backtick_content) ==
    LET table_lines == Split(content, "\n")
    IN Join([k \in 1..Len(table_lines) |->
                IF IsTableRow(table_lines[k])
                THEN RestoreFrom(table_lines[k], protected_backtick_content,
                                 BacktickPlaceholder, 0)
                ELSE table_lines[k]], "\n")
\* r"\\begin\{env\*?\}.*?\\end\{env\*?\}"  (DOTALL)
LatexTableRe(env) ==
    <<Lit(<<"\\", "begin", "{", env>>), Opt(<<Lit(<<"*">>)>>), Lit(<<"}">>),
      LazyStarNot(Nothing), Lit(<<"\\", "end", "{", env>>), Opt(<<Lit(<<"*">>)>>),
      Lit(<<"}">>)>>
\* backtick content that the tables left as it was goes back to its placeholder
RECURSIVE ReprotectFrom(_, _, _)
ReprotectFrom(content, protected_backtick_content, n) ==
    IF n >= Len(protected_backtick_content) \/ Len(content) = 0 THEN content
    ELSE ReprotectFrom(
             Replace(content, protected_backtick_content[n + 1],
                     <<BacktickPlaceholder(n)>>),
             protected_backtick_content, n + 1)
protect_latex_table_again(re, p) == protect_latex_table(re, p.content, p.map)
protect_latex_tables(content, protected_tables) ==
    protect_latex_table_again(LatexTableRe("stable"),
        protect_latex_table_again(LatexTableRe("sidewaystable"),
            protect_latex_table(LatexTableRe("table"), content, protected_tables)))
reprotect_tables(st, p) ==
    [st EXCEPT !.content = ReprotectFrom(p.content, st.backticks, 0), !.tables = p.map]
tables_step(st, is_supplementary) ==
    reprotect_tables(st,
        protect_latex_tables(
            convert_tables_to_latex(
                restore_table_rows(
                    RestoreFrom(st.content, st.markdown_tables,
                                MarkdownTablePlaceholder, 0),
                    st.backticks),
                st.backticks, is_supplementary),
            st.tables))
figures_step(st, is_supplementary) ==
    [st EXCEPT !.content = convert_figures_to_latex(st.content, is_supplementary)]
figure_references_step(st) ==
    [st EXCEPT !.content = convert_figure_references_to_latex(st.content)]
headers_step(st) == [st EXCEPT !.content = convert_headers(st.content)]
citations_step(st) ==
    [st EXCEPT !.content =
        process_citations_outside_tables(st.content, st.markdown_tables)]
code_spans_step(st) ==
    [st EXCEPT !.content = convert_code_spans(st.content, st.backticks)]
bold_italic_step(st) == [st EXCEPT !.content = convert_bold_italic(st.content)]
links_step(st) == [st EXCEPT !.content = convert_links_to_latex(st.content)]
underscores_step(st) == [st EXCEPT !.content = escape_special_characters(st.content)]
restore_tables_step(st) ==
    [st EXCEPT !.content = RestoreFrom(st.content, st.tables, TablePlaceholder, 0)]
restore_verbatim_step(st) ==
    [st EXCEPT !.content =
        RestoreFrom(st.content, st.verbatim, VerbatimPlaceholder, 0)]

\* the steps of convert_markdown_to_latex in the order of its statements
\* the steps with the two restorations in the other order
Pipeline_verbatim_restored_first ==
    <<"code_blocks", "protect_verbatim", "protect_markdown_tables",
      "protect_backticks", "html", "lists", "tables", "figures",
      "figure_references", "headers", "citations", "code_spans", "bold_italic",
      "links", "underscores", "restore_verbatim", "restore_tables">>
Pipeline ==
    <<"code_blocks", "protect_verbatim", "protect_markdown_tables",
      "protect_backticks", "html", "lists", "tables", "figures",
      "figure_references", "headers", "citations", "code_spans", "bold_italic",
      "links", "underscores", "restore_tables", "restore_verbatim">>
StepOf(step, st, is_supplementary) ==
    CASE step = "code_blocks" -> code_blocks_step(st)
      [] step = "protect_verbatim" -> protect_verbatim_step(st)
      [] step = "protect_markdown_tables" -> protect_markdown_tables_step(st)
      [] step = "protect_backticks" -> protect_backticks_step(st)
      [] step = "html" -> html_step(st)
      [] step = "lists" -> lists_step(st)
      [] step = "tables" -> tables_step(st, is_supplementary)
      [] step = "figures" -> figures_step(st, is_supplementary)
      [] step = "figure_references" -> figure_references_step(st)
      [] step = "headers" -> headers_step(st)
      [] step = "citations" -> citations_step(st)
      [] step = "code_spans" -> code_spans_step(st)
      [] step = "bold_italic" -> bold_italic_step(st)
      [] step = "links" -> links_step(st)
      [] step = "underscores" -> underscores_step(st)
      [] step = "restore_tables" -> restore_tables_step(st)
      [] step = "restore_verbatim" -> restore_verbatim_step(st)
RECURSIVE RunFrom(_, _, _)
RunFrom(st, k, is_supplementary) ==
    IF k > Len(Pipeline) \/ Len(st.content) < 0 THEN st
    ELSE RunFrom(StepOf(Pipeline[k], st, is_supplementary), k + 1, is_supplementary)
convert_markdown_to_latex(content, is_supplementary) ==
    RunFrom(NewConversion(content), 1, is_supplementary).content

(***************************************************************************)
(* map_section_title_to_key.  The rules look for substrings inside words   *)
(* ("method" in "methods"), so a title is a sequence of characters here.   *)
(***************************************************************************)
\* the substrings of the rules
S_abstract ==
    <<"a", "b", "s", "t", "r", "a", "c", "t">>
S_introduction ==
    <<"i", "n", "t", "r", "o", "d", "u", "c", "t", "i", "o", "n">>
S_method ==
    <<"m", "e", "t", "h", "o", "d">>
S_result ==
    <<"r", "e", "s", "u", "l", "t">>
S_discussion ==
    <<"d", "i", "s", "c", "u", "s", "s", "i", "o", "n">>
S_conclusion ==
    <<"c", "o", "n", "c", "l", "u", "s", "i", "o", "n">>
S_data_availability_title ==
    <<"d", "a", "t", "a", " ", "a", "v", "a", "i", "l", "a", "b", "i", "l",
      "i", "t", "y">>
S_data_access ==
    <<"d", "a", "t", "a", " ", "a", "c", "c", "e", "s", "s">>
S_code_availability_title ==
    <<"c", "o", "d", "e", " ", "a", "v", "a", "i", "l", "a", "b", "i", "l",
      "i", "t", "y">>
S_code_access ==
    <<"c", "o", "d", "e", " ", "a", "c", "c", "e", "s", "s">>
S_author_contribution ==
    <<"a", "u", "t", "h", "o", "r", " ", "c", "o", "n", "t", "r", "i", "b",
      "u", "t", "i", "o", "n">>
S_contribution ==
    <<"c", "o", "n", "t", "r", "i", "b", "u", "t", "i", "o", "n">>
S_acknowledgement ==
    <<"a", "c", "k", "n", "o", "w", "l", "e", "d", "g", "e", "m", "e", "n",
      "t">>
S_acknowledge ==
    <<"a", "c", "k", "n", "o", "w", "l", "e", "d", "g", "e">>
S_funding ==
    <<"f", "u", "n", "d", "i", "n", "g">>
S_financial_support ==
    <<"f", "i", "n", "a", "n", "c", "i", "a", "l", " ", "s", "u", "p", "p",
      "o", "r", "t">>
S_grant ==
    <<"g", "r", "a", "n", "t">>
\* the keys that are no substring of a rule
K_main ==
    <<"m", "a", "i", "n">>
K_methods ==
    <<"m", "e", "t", "h", "o", "d", "s">>
K_results_and_discussion ==
    <<"r", "e", "s", "u", "l", "t", "s", "_", "a", "n", "d", "_", "d", "i",
      "s", "c", "u", "s", "s", "i", "o", "n">>
K_results ==
    <<"r", "e", "s", "u", "l", "t", "s">>
K_data_availability ==
    <<"d", "a", "t", "a", "_", "a", "v", "a", "i", "l", "a", "b", "i", "l",
      "i", "t", "y">>
K_code_availability ==
    <<"c", "o", "d", "e", "_", "a", "v", "a", "i", "l", "a", "b", "i", "l",
      "i", "t", "y">>
K_author_contributions ==
    <<"a", "u", "t", "h", "o", "r", "_", "c", "o", "n", "t", "r", "i", "b",
      "u", "t", "i", "o", "n", "s">>
K_acknowledgements ==
    <<"a", "c", "k", "n", "o", "w", "l", "e", "d", "g", "e", "m", "e", "n",
      "t", "s">>

\* the rule for result before the rule for result together with discussion
map_section_title_to_key_result_first(title) ==
    LET title_lower == Lower(title)
        In_title(q) == Contains(title_lower, q)
    IN IF In_title(S_abstract) THEN S_abstract
       ELSE IF In_title(S_introduction) THEN K_main
       ELSE IF In_title(S_method) THEN K_methods
       ELSE IF In_title(S_result) THEN K_results
       ELSE IF In_title(S_result) /\ In_title(S_discussion) THEN K_results_and_discussion
       ELSE IF In_title(S_discussion) THEN S_discussion
       ELSE IF In_title(S_conclusion) THEN S_conclusion
       ELSE IF In_title(S_data_availability_title) \/ In_title(S_data_access)
       THEN K_data_availability
       ELSE IF In_title(S_code_availability_title) \/ In_title(S_code_access)
       THEN K_code_availability
       ELSE IF In_title(S_author_contribution) \/ In_title(S_contribution)
       THEN K_author_contributions
       ELSE IF In_title(S_acknowledgement) \/ In_title(S_acknowledge)
       THEN K_acknowledgements
       ELSE IF In_title(S_funding) \/ In_title(S_financial_support) \/ In_title(S_grant)
       THEN S_funding
       ELSE Replace(Replace(title_lower, <<" ">>, <<"_">>), <<"-">>, <<"_">>)
map_section_title_to_key(title) ==
    LET title_lower == Lower(title)
        In_title(q) == Contains(title_lower, q)
    IN IF In_title(S_abstract) THEN S_abstract
       ELSE IF In_title(S_introduction) THEN K_main
       ELSE IF In_title(S_method) THEN K_methods
       ELSE IF In_title(S_result) /\ In_title(S_discussion) THEN K_results_and_discussion
       ELSE IF In_title(S_result) THEN K_results
       ELSE IF In_title(S_discussion) THEN S_discussion
       ELSE IF In_title(S_conclusion) THEN S_conclusion
       ELSE IF In_title(S_data_availability_title) \/ In_title(S_data_access)
       THEN K_data_availability
       ELSE IF In_title(S_code_availability_title) \/ In_title(S_code_access)
       THEN K_code_availability
       ELSE IF In_title(S_author_contribution) \/ In_title(S_contribution)
       THEN K_author_contributions
       ELSE IF In_title(S_acknowledgement) \/ In_title(S_acknowledge)
       THEN K_acknowledgements
       ELSE IF In_title(S_funding) \/ In_title(S_financial_support) \/ In_title(S_grant)
       THEN S_funding
       ELSE Replace(Replace(title_lower, <<" ">>, <<"_">>), <<"-">>, <<"_">>)

(***************************************************************************)
(* extract_content_sections: the text of an article is cut at its "## "    *)
(* headers and every piece is converted by a call of its own.  The titles  *)
(* and the word "supplementary" are looked up by substring tests, so the   *)
(* articles spell them as sequences of characters.                         *)
(***************************************************************************)
S_supplementary ==
    <<"s", "u", "p", "p", "l", "e", "m", "e", "n", "t", "a", "r", "y">>

\* article_md is content, not the path of a file
IsContent(article_md) ==
    \/ StartsWith(article_md, <<"#">>)
    \/ StartsWith(article_md, <<"-", "-", "-">>)
    \/ Contains(article_md, <<"\n">>)
\* r"^---\n.*?\n---\n"  (DOTALL): the front matter at the start of the text
YamlRe ==
    <<Lit(<<"-", "-", "-", "\n">>), LazyStarNot(Nothing),
      Lit(<<"\n", "-", "-", "-", "\n">>)>>
remove_front_matter(content) ==
    LET r == M(YamlRe, content, 1, NoCaps)
    IN IF r.ok THEN SubSeq(content, r.end, Len(content)) ELSE content
\* r"^## (.+?)$"  (MULTILINE)
SectionRe ==
    <<Bol, Lit(<<"#", "#", " ">>), Open(1), LazyPlusNot(Newline), Close(1), Eol>>
section_matches(content) == FindAll(SectionRe, content)
has_supplementary(text) == Contains(Lower(text), S_supplementary)

\* the text before the first header
main_content(content) ==
    Strip(SubSeq(content, 1, section_matches(content)[1].b - 1))
section_title(content, i) ==
    Strip(Group(content, section_matches(content)[i], 1))
\* from the end of header i to the next header or the end of the document
section_content(content, i) ==
    LET ms == section_matches(content)
        section_end == IF i + 1 <= Len(ms) THEN ms[i + 1].b ELSE Len(content) + 1
    IN Strip(SubSeq(content, ms[i].e, section_end - 1))
section_is_supplementary(content, i) ==
    \/ has_supplementary(section_title(content, i))
    \/ has_supplementary(section_content(content, i))

\* sections[key] = value on a dict kept as its items in insertion order
SetItem(sections, key, value) ==
    IF \E k \in 1..Len(sections) : sections[k].key = key
    THEN [k \in 1..Len(sections) |->
             IF sections[k].key = key THEN [key |-> key, value |-> value]
             ELSE sections[k]]
    ELSE Append(sections, [key |-> key, value |-> value])
HasKey(sections, key) == \E k \in 1..Len(sections) : sections[k].key = key
GetItem(sections, key) ==
    sections[CHOOSE k \in 1..Len(sections) : sections[k].key = key].value

\* the whole function: the calls one after the other
RECURSIVE ExtractFrom(_, _, _)
ExtractFrom(content, i, sections) ==
    IF i > Len(section_matches(content)) THEN sections
    ELSE LET section_key == map_section_title_to_key(section_title(content, i))
             section_content_latex ==
                 convert_markdown_to_latex(section_content(content, i),
                                           section_is_supplementary(content, i))
         IN ExtractFrom(content, i + 1,
                IF Len(section_key) > 0
                THEN SetItem(sections, section_key, section_content_latex)
                ELSE sections)
extract_content_sections(article_md) ==
    LET content == remove_front_matter(article_md)
    IN IF Len(section_matches(content)) = 0
       THEN <<[key |-> K_main,
               value |-> convert_markdown_to_latex(content, has_supplementary(content))]>>
       ELSE ExtractFrom(content, 1,
                IF Len(main_content(content)) > 0
                THEN <<[key |-> K_main,
                        value |-> convert_markdown_to_latex(main_content(content),
                                      has_supplementary(main_content(content)))]>>
                ELSE <<>>)

(***************************************************************************)
(* The conversion as a state machine: convert_markdown_to_latex runs the   *)
(* steps of Pipeline one after the other on the content and the four maps  *)
(* of protected text; pc is the step that runs next.                       *)
(***************************************************************************)
VARIABLES
    markdown,                    \* the argument of convert_markdown_to_latex
    shape,                       \* how the argument was put together
    is_supplementary,            \* the second argument
    content,                     \* the local variable content
    protected_verbatim_content,  \* the maps of protected text, in insertion order
    protected_backtick_content,
    protected_markdown_tables,
    protected_tables,
    pc,                          \* the step that runs next
    arg,                         \* the argument of a function called on its own
    ret,                         \* what the function returned
    section_index                \* the section extract_content_sections is at

vars ==
    <<markdown, shape, is_supplementary, content, protected_verbatim_content,
      protected_backtick_content, protected_markdown_tables, protected_tables,
      pc, arg, ret, section_index>>

\* the texts of at most n fragments
RECURSIVE Texts(_, _)
Texts(fragments, n) ==
    IF n = 0 THEN {<<>>}
    ELSE LET shorter == Texts(fragments, n - 1)
         IN shorter \cup {t \o f : t \in shorter, f \in fragments}

MaxFrags == 2
TableFragment == <<"|", " ", "h", " ", "|", "\n", "|", "-", "|", "\n">>
Fragments ==
    {<<"a">>, <<" ">>, <<"\n">>, <<"_">>, <<"&">>, <<"}">>,
     <<"*", "b", "*">>, <<"@", "x">>, <<"@", "eq", ":", "y">>,
     <<BT, "c", BT>>, <<BT, BT, "b", BT, BT>>, EndVerbatim, TableFragment}
Bodies == Texts(Fragments, MaxFrags)

\* the documents: a body as such, as an inline code span, as a fenced code
\* block, as the cell of a table, as the cell of a table of markdown syntax
Shapes == {"plain", "code", "fenced", "table", "mdtable"}
Wrap(kind, body) ==
    CASE kind = "plain" -> body
      [] kind = "code" -> <<BT>> \o body \o <<BT>>
      [] kind = "fenced" -> Fence \o <<"\n">> \o body \o <<"\n">> \o Fence
      [] kind = "table" ->
            <<"|", " ", "h", " ", "|", "\n", "|", "-", "|", "\n", "|", " ">>
            \o body \o <<" ", "|">>
      [] kind = "mdtable" ->
            <<"|", " ", "Markdown", " ", "Element", " ", "|", "\n",
              "|", "-", "|", "\n", "|", " ">> \o body \o <<" ", "|">>

State ==
    [content |-> content, verbatim |-> protected_verbatim_content,
     backticks |-> protected_backtick_content,
     markdown_tables |-> protected_markdown_tables, tables |-> protected_tables]
Apply(st) ==
    /\ content' = st.content
    /\ protected_verbatim_content' = st.verbatim
    /\ protected_backtick_content' = st.backticks
    /\ protected_markdown_tables' = st.markdown_tables
    /\ protected_tables' = st.tables
NoCall == arg = <<>> /\ ret = <<>> /\ section_index = 0
NoConversion ==
    /\ markdown = <<>>
    /\ shape = [kind |-> "plain", body |-> <<>>]
    /\ is_supplementary = FALSE
    /\ content = <<>>
    /\ protected_verbatim_content = <<>>
    /\ protected_backtick_content = <<>>
    /\ protected_markdown_tables = <<>>
    /\ protected_tables = <<>>
    /\ section_index = 0
conversion ==
    <<markdown, shape, is_supplementary, content, protected_verbatim_content,
      protected_backtick_content, protected_markdown_tables, protected_tables,
      section_index>>

Init ==
    /\ shape \in [kind : Shapes, body : Bodies]
    /\ markdown = Wrap(shape.kind, shape.body)
    /\ is_supplementary \in BOOLEAN
    /\ content = markdown
    /\ protected_verbatim_content = <<>>
    /\ protected_backtick_content = <<>>
    /\ protected_markdown_tables = <<>>
    /\ protected_tables = <<>>
    /\ pc = Pipeline[1]
    /\ NoCall

Following(step) ==
    LET k == CHOOSE j \in 1..Len(Pipeline) : Pipeline[j] = step
    IN IF k = Len(Pipeline) THEN "done" ELSE Pipeline[k + 1]
input == <<markdown, shape, is_supplementary, arg, ret, section_index>>

ConvertCodeBlocks ==
    /\ pc = "code_blocks"
    /\ Apply(code_blocks_step(State))
    /\ pc' = Following(pc)
    /\ UNCHANGED input

ProtectVerbatim ==
    /\ pc = "protect_verbatim"
    /\ Apply(protect_verbatim_step(State))
    /\ pc' = Following(pc)
    /\ UNCHANGED input

ProtectMarkdownTables ==
    /\ pc = "protect_markdown_tables"
    /\ Apply(protect_markdown_tables_step(State))
    /\ pc' = Following(pc)
    /\ UNCHANGED input

ProtectBackticks ==
    /\ pc = "protect_backticks"
    /\ Apply(protect_backticks_step(State))
    /\ pc' = Following(pc)
    /\ UNCHANGED input

ConvertHtml ==
    /\ pc = "html"
    /\ Apply(html_step(State))
    /\ pc' = Following(pc)
    /\ UNCHANGED input

ConvertLists ==
    /\ pc = "lists"
    /\ Apply(lists_step(State))
    /\ pc' = Following(pc)
    /\ UNCHANGED input

ConvertTables ==
    /\ pc = "tables"
    /\ Apply(tables_step(State, is_supplementary))
    /\ pc' = Following(pc)
    /\ UNCHANGED input

ConvertFigures ==
    /\ pc = "figures"
    /\ Apply(figures_step(State, is_supplementary))
    /\ pc' = Following(pc)
    /\ UNCHANGED input

ConvertFigureReferences ==
    /\ pc = "figure_references"
    /\ Apply(figure_references_step(State))
    /\ pc' = Following(pc)
    /\ UNCHANGED input

ConvertHeaders ==
    /\ pc = "headers"
    /\ Apply(headers_step(State))
    /\ pc' = Following(pc)
    /\ UNCHANGED input

ConvertCitations ==
    /\ pc = "citations"
    /\ Apply(citations_step(State))
    /\ pc' = Following(pc)
    /\ UNCHANGED input

ConvertCodeSpans ==
    /\ pc = "code_spans"
    /\ Apply(code_spans_step(State))
    /\ pc' = Following(pc)
    /\ UNCHANGED input

ConvertBoldItalic ==
    /\ pc = "bold_italic"
    /\ Apply(bold_italic_step(State))
    /\ pc' = Following(pc)
    /\ UNCHANGED input

ConvertLinks ==
    /\ pc = "links"
    /\ Apply(links_step(State))
    /\ pc' = Following(pc)
    /\ UNCHANGED input

EscapeUnderscores ==
    /\ pc = "underscores"
    /\ Apply(underscores_step(State))
    /\ pc' = Following(pc)
    /\ UNCHANGED input

RestoreTables ==
    /\ pc = "restore_tables"
    /\ Apply(restore_tables_step(State))
    /\ pc' = Following(pc)
    /\ UNCHANGED input

RestoreVerbatim ==
    /\ pc = "restore_verbatim"
    /\ Apply(restore_verbatim_step(State))
    /\ pc' = Following(pc)
    /\ UNCHANGED input

Next ==
    \/ ConvertCodeBlocks
    \/ ProtectVerbatim
    \/ ProtectMarkdownTables
    \/ ProtectBackticks
    \/ ConvertHtml
    \/ ConvertLists
    \/ ConvertTables
    \/ ConvertFigures
    \/ ConvertFigureReferences
    \/ ConvertHeaders
    \/ ConvertCitations
    \/ ConvertCodeSpans
    \/ ConvertBoldItalic
    \/ ConvertLinks
    \/ EscapeUnderscores
    \/ RestoreTables
    \/ RestoreVerbatim

Spec == Init /\ [][Next]_vars

(***************************************************************************)
(* escape_special_characters called on its own, and called again on what   *)
(* it returned.                                                            *)
(***************************************************************************)
MaxEscapeFrags == 4
EscapeFragments ==
    {<<"a">>, <<"_">>, <<".">>, <<"(">>, <<")">>, <<"md">>, <<"00">>,
     <<"CONFIG">>, <<" ">>}
EscapeTexts == Texts(EscapeFragments, MaxEscapeFrags)

InitEscape ==
    /\ NoConversion
    /\ arg \in EscapeTexts
    /\ ret = <<>>
    /\ pc = "escape"
Escape ==
    /\ pc = "escape"
    /\ ret' = <<escape_special_characters(arg)>>
    /\ pc' = "escape_again"
    /\ UNCHANGED <<conversion, arg>>
EscapeAgain ==
    /\ pc = "escape_again"
    /\ ret' = Append(ret, escape_special_characters(ret[1]))
    /\ pc' = "escaped"
    /\ UNCHANGED <<conversion, arg>>
NextEscape ==
    \/ Escape
    \/ EscapeAgain
SpecEscape == InitEscape /\ [][NextEscape]_vars

(***************************************************************************)
(* map_section_title_to_key called on its own.                             *)
(***************************************************************************)
MaxTitleFrags == 3
TitleFragments ==
    {<<"A", "b", "s", "t", "r", "a", "c", "t">>,
     <<"I", "n", "t", "r", "o", "d", "u", "c", "t", "i", "o", "n">>,
     <<"M", "e", "t", "h", "o", "d", "s">>,
     <<"R", "e", "s", "u", "l", "t", "s">>,
     <<"D", "i", "s", "c", "u", "s", "s", "i", "o", "n">>,
     <<"C", "o", "n", "c", "l", "u", "s", "i", "o", "n">>,
     <<"D", "a", "t", "a">>,
     <<"C", "o", "d", "e">>,
     <<"A", "v", "a", "i", "l", "a", "b", "i", "l", "i", "t", "y">>,
     <<"A", "c", "c", "e", "s", "s">>,
     <<"A", "u", "t", "h", "o", "r">>,
     <<"C", "o", "n", "t", "r", "i", "b", "u", "t", "i", "o", "n">>,
     <<"A", "c", "k", "n", "o", "w", "l", "e", "d", "g", "e", "m", "e", "n", "t", "s">>,
     <<"F", "u", "n", "d", "i", "n", "g">>,
     <<"F", "i", "n", "a", "n", "c", "i", "a", "l">>,
     <<"S", "u", "p", "p", "o", "r", "t">>,
     <<"G", "r", "a", "n", "t">>,
     <<" ">>,
     <<"-">>,
     <<"a", "n", "d">>,
     <<"N", "o", "t", "e", "s">>}
Titles == Texts(TitleFragments, MaxTitleFrags)

InitSections ==
    /\ NoConversion
    /\ arg \in Titles
    /\ ret = <<>>
    /\ pc = "map_title"
MapTitle ==
    /\ pc = "map_title"
    /\ ret' = map_section_title_to_key(arg)
    /\ pc' = "mapped"
    /\ UNCHANGED <<conversion, arg>>
NextSections ==
    \/ MapTitle
SpecSections == InitSections /\ [][NextSections]_vars

(***************************************************************************)
(* extract_content_sections: the text before the first header and then     *)
(* every section are converted by calls of convert_markdown_to_latex, one  *)
(* after the other, and stored under their keys.                           *)
(***************************************************************************)
MaxSections == 2
FrontMatter == <<"-", "-", "-", "\n", "a", "\n", "-", "-", "-", "\n">>
FigureFragment == <<"!", "[", "a", "]", "(", "x", ".", "png", ")">>
SectionTable == <<"|", " ", "h", " ", "|", "\n", "|", "-", "|", "\n", "|", " ", "a", " ", "|">>
SectionTitles ==
    {<<"M", "e", "t", "h", "o", "d", "s">>,
     <<"I", "n", "t", "r", "o", "d", "u", "c", "t", "i", "o", "n">>,
     <<"S", "u", "p", "p", "l", "e", "m", "e", "n", "t", "a", "r", "y">>,
     <<" ">>}
SectionBodies == {<<"a">>, SectionTable, FigureFragment, S_supplementary}
Preambles == {<<>>, <<"a">>, FigureFragment}
SectionText(title, body) == <<"#", "#", " ">> \o title \o <<"\n">> \o body \o <<"\n">>
\* the texts of at most n sections
RECURSIVE SectionTexts(_)
SectionTexts(n) ==
    IF n = 0 THEN {<<>>}
    ELSE LET shorter == SectionTexts(n - 1)
         IN shorter \cup {t \o SectionText(title, body) :
                             t \in shorter, title \in SectionTitles, body \in SectionBodies}
Articles ==
    {front \o (IF Len(preamble) > 0 THEN preamble \o <<"\n">> ELSE <<>>) \o sections :
        front \in {<<>>, FrontMatter}, preamble \in Preambles,
        sections \in SectionTexts(MaxSections)} \ {<<>>, FrontMatter}

\* the local variable content of extract_content_sections
Document == remove_front_matter(arg)
\* the state a call of convert_markdown_to_latex starts in
CallState_kept_maps(text) == [State EXCEPT !.content = text]
CallState(text) == NewConversion(text)
BeginCall(text, supplementary) ==
    /\ markdown' = text
    /\ is_supplementary' = supplementary
    /\ Apply(CallState(text))
    /\ pc' = Pipeline[1]
BeginSection(i) ==
    /\ BeginCall(section_content(Document, i), section_is_supplementary(Document, i))
    /\ section_index' = i

InitExtract ==
    /\ NoConversion
    /\ arg \in Articles
    /\ ret = <<>>
    /\ pc = "extract"
\* up to the first call: of the whole text, of the text before the first
\* header, or of the first section
StartExtraction ==
    /\ pc = "extract"
    /\ IF Len(section_matches(Document)) = 0
       THEN BeginCall(Document, has_supplementary(Document)) /\ section_index' = 0
       ELSE IF Len(main_content(Document)) > 0
       THEN /\ BeginCall(main_content(Document),
                         has_supplementary(main_content(Document)))
            /\ section_index' = 0
       ELSE BeginSection(1)
    /\ UNCHANGED <<shape, arg, ret>>
\* the key the call that has returned is stored under
CallKey ==
    IF section_index = 0 THEN K_main
    ELSE map_section_title_to_key(section_title(Document, section_index))
\* the call has returned: its result is stored, and the next section is
\* converted or the sections are returned
StoreSection ==
    /\ pc = "done"
    /\ ret' = IF Len(CallKey) > 0 THEN SetItem(ret, CallKey, content) ELSE ret
    /\ IF section_index < Len(section_matches(Document))
       THEN BeginSection(section_index + 1)
       ELSE /\ pc' = "extracted"
            /\ UNCHANGED <<markdown, is_supplementary, content,
                           protected_verbatim_content, protected_backtick_content,
                           protected_markdown_tables, protected_tables, section_index>>
    /\ UNCHANGED <<shape, arg>>
NextExtract ==
    \/ StartExtraction
    \/ ConvertCodeBlocks
    \/ ProtectVerbatim
    \/ ProtectMarkdownTables
    \/ ProtectBackticks
    \/ ConvertHtml
    \/ ConvertLists
    \/ ConvertTables
    \/ ConvertFigures
    \/ ConvertFigureReferences
    \/ ConvertHeaders
    \/ ConvertCitations
    \/ ConvertCodeSpans
    \/ ConvertBoldItalic
    \/ ConvertLinks
    \/ EscapeUnderscores
    \/ RestoreTables
    \/ RestoreVerbatim
    \/ StoreSection
SpecExtract == InitExtract /\ [][NextExtract]_vars

(***************************************************************************)
(* convert_figures_to_latex called on its own: the function of md2tex.py   *)
(* and then the function of figure_processor.py on the same arguments.     *)
(***************************************************************************)
MaxFigures == 2
FigurePaths ==
    {<<"FIGURES", "/", "fig1", ".", "svg">>,
     <<"Figures", "/", "fig1", ".", "png">>,
     <<"FIGURES", "/", "sub", "/", "fig1", ".", "svg">>}
FigureCaptions == {<<"T">>, <<"T", "\n", "u">>}
FigureForms == {"new", "attributes", "plain"}
FigureAttributes == <<"{", "#", "fig", ":", "a", "}">>
FigureText(figure) ==
    CASE figure.form = "new" ->
            <<"!", "[", "]", "(">> \o figure.path \o <<")", "\n">> \o FigureAttributes
            \o <<" ">> \o figure.caption
      [] figure.form = "attributes" ->
            <<"!", "[">> \o figure.caption \o <<"]", "(">> \o figure.path \o <<")">>
            \o FigureAttributes
      [] figure.form = "plain" ->
            <<"!", "[">> \o figure.caption \o <<"]", "(">> \o figure.path \o <<")">>
FigureRecords == [form : FigureForms, path : FigurePaths, caption : FigureCaptions]
\* the figures of a text, a blank line between them
FiguresText(figures) ==
    Flatten([k \in 1..Len(figures) |->
                (IF k > 1 THEN <<"\n", "\n">> ELSE <<>>) \o FigureText(figures[k])])
FigureLists == UNION {[1..n -> FigureRecords] : n \in 1..MaxFigures}

InitFigures ==
    /\ NoConversion
    /\ arg \in [figures : FigureLists, is_supplementary : BOOLEAN]
    /\ ret = <<>>
    /\ pc = "convert_figures"
ConvertFiguresAlone ==
    /\ pc = "convert_figures"
    /\ ret' = <<convert_figures_to_latex(FiguresText(arg.figures), arg.is_supplementary)>>
    /\ pc' = "process_figures"
    /\ UNCHANGED <<conversion, arg>>
ProcessFigures ==
    /\ pc = "process_figures"
    /\ ret' = Append(ret,
                  figure_processor_convert_figures_to_latex(FiguresText(arg.figures),
                      arg.is_supplementary))
    /\ pc' = "figures_converted"
    /\ UNCHANGED <<conversion, arg>>
NextFigures ==
    \/ ConvertFiguresAlone
    \/ ProcessFigures
SpecFigures == InitFigures /\ [][NextFigures]_vars

(***************************************************************************)
(* generate_latex_table called on its own.                                 *)
(***************************************************************************)
MaxRows == 2
TableWidths == {"single", "double"}
RotationAngles == {<<>>, <<"0">>, <<"90">>}              \* None, 0 and 90
TableCaptions == {<<>>, <<"c">>}
TableIds == {<<>>, <<"tbl", ":", "x">>}
TableRows == UNION {[1..n -> {<<<<"a">>>>}] : n \in 0..MaxRows}
InitTable ==
    /\ NoConversion
    /\ arg \in [data_rows : TableRows, caption : TableCaptions, width : TableWidths,
                table_id : TableIds, rotation_angle : RotationAngles,
                is_supplementary : BOOLEAN]
    /\ ret = <<>>
    /\ pc = "generate_table"
GenerateTable ==
    /\ pc = "generate_table"
    /\ ret' = generate_latex_table(<<<<"h">>>>, arg.data_rows, arg.caption, arg.width,
                  arg.table_id, <<>>, arg.rotation_angle, arg.is_supplementary)
    /\ pc' = "table_generated"
    /\ UNCHANGED <<conversion, arg>>
NextTable ==
    \/ GenerateTable
SpecTable == InitTable /\ [][NextTable]_vars

(***************************************************************************)
(* convert_lists_to_latex called on its own, and then the whole conversion *)
(* of the same text, which may come after a markdown table.                *)
(***************************************************************************)
MaxListLines == 3
Indent(n) == [k \in 1..n |-> " "]
ListLines ==
    {[kind |-> "bullet", indent |-> 0, marker |-> <<"-">>, text |-> <<"x">>],
     [kind |-> "bullet", indent |-> 2, marker |-> <<"-">>, text |-> <<"z">>],
     [kind |-> "bullet", indent |-> 3, marker |-> <<"-">>, text |-> <<"w">>],
     [kind |-> "bullet", indent |-> 0, marker |-> <<"*">>, text |-> <<"y">>],
     [kind |-> "number", indent |-> 0, marker |-> <<"1", ".">>, text |-> <<"a">>],
     [kind |-> "number", indent |-> 0, marker |-> <<"2", ")">>, text |-> <<"b">>],
     [kind |-> "blank", indent |-> 0, marker |-> <<>>, text |-> <<>>],
     [kind |-> "text", indent |-> 0, marker |-> <<>>, text |-> <<"t">>]}
IsItem(line) == line.kind \in {"bullet", "number"}
LineText(line) ==
    IF IsItem(line) THEN Indent(line.indent) \o line.marker \o <<" ">> \o line.text
    ELSE line.text
ListTable == <<"|", " ", "h", " ", "|", "\n", "|", "-", "|", "\n", "|", " ", "a", " ", "|", "\n", "\n">>
ListDocuments ==
    [lines : UNION {[1..n -> ListLines] : n \in 1..MaxListLines}, after_table : BOOLEAN]
ListText(document) ==
    (IF document.after_table THEN ListTable ELSE <<>>)
    \o Join([k \in 1..Len(document.lines) |-> LineText(document.lines[k])], "\n")

InitLists ==
    /\ NoConversion
    /\ arg \in ListDocuments
    /\ ret = <<>>
    /\ pc = "convert_lists"
ConvertListsAlone ==
    /\ pc = "convert_lists"
    /\ ret' = <<convert_lists_to_latex(ListText(arg))>>
    /\ pc' = "convert_document"
    /\ UNCHANGED <<conversion, arg>>
ConvertListDocument ==
    /\ pc = "convert_document"
    /\ ret' = Append(ret, convert_markdown_to_latex(ListText(arg), FALSE))
    /\ pc' = "lists_converted"
    /\ UNCHANGED <<conversion, arg>>
NextLists ==
    \/ ConvertListsAlone
    \/ ConvertListDocument
SpecLists == InitLists /\ [][NextLists]_vars

(***************************************************************************)
(* convert_code_blocks_to_latex on one code block: a fenced block with or  *)
(* without a language after the fence, or a block of lines indented by     *)
(* four spaces, with or without text around it.                            *)
(***************************************************************************)
MaxCodeLines == 2
CodeLanguages ==
    {<<>>, <<"python">>, <<"py">>, <<"Python">>, <<"json">>, <<"ruby">>,
     <<"c", "+", "+">>}
CodeLines == {<<"x", "_", "y">>, <<"a", "&", "b">>, <<"$", "x", "$">>}
CodeBlocks ==
    [form : {"fenced", "indented"},
     language : CodeLanguages,
     code : UNION {[1..n -> CodeLines] : n \in 1..MaxCodeLines},
     before : {<<>>, <<"t", "\n">>},
     after : {<<>>, <<"\n", "t">>}]
CodeOf(block) == Join(block.code, "\n")
CodeText(block) ==
    block.before
    \o (IF block.form = "fenced"
        THEN Fence \o block.language \o <<"\n">> \o CodeOf(block) \o <<"\n">> \o Fence
        ELSE Join([k \in 1..Len(block.code) |-> Indent(4) \o block.code[k]], "\n"))
    \o block.after

InitCode ==
    /\ NoConversion
    /\ arg \in {b \in CodeBlocks : b.form = "indented" => b.language = <<>>}
    /\ ret = <<>>
    /\ pc = "convert_code_blocks"
ConvertCodeBlocksAlone ==
    /\ pc = "convert_code_blocks"
    /\ ret' = <<convert_code_blocks_to_latex(CodeText(arg))>>
    /\ pc' = "code_blocks_converted"
    /\ UNCHANGED <<conversion, arg>>
NextCode ==
    \/ ConvertCodeBlocksAlone
SpecCode == InitCode /\ [][NextCode]_vars

(***************************************************************************)
(* convert_code_blocks_to_latex on a fenced block whose code has indented  *)
(* lines and lines that are themselves \begin{verbatim} or \end{verbatim}. *)
(***************************************************************************)
MaxScanLines == 3
ScanLines == {<<"a">>, Indent(4) \o <<"x">>, BeginVerbatim, EndVerbatim}
ScanBlocks ==
    [form : {"fenced"},
     language : {<<>>, <<"python">>},
     code : UNION {[1..n -> ScanLines] : n \in 1..MaxScanLines},
     before : {<<>>},
     after : {<<>>}]
InitCodeScan ==
    /\ NoConversion
    /\ arg \in ScanBlocks
    /\ ret = <<>>
    /\ pc = "convert_code_blocks"
SpecCodeScan == InitCodeScan /\ [][NextCode]_vars

(***************************************************************************)
(* The citation conversion on a text of bracketed citation groups, bare    *)
(* citations and other text: convert_citations_to_latex alone, and the     *)
(* same text through convert_markdown_to_latex.                            *)
(***************************************************************************)
MaxCitationFragments == 2
MaxKeys == 2
CitationKeys == {<<"a">>, <<"b", "-", "c">>, <<"d", "_", "e">>}
CitationFragments ==
    [kind : {"group"},
     keys : UNION {[1..n -> CitationKeys] : n \in 1..MaxKeys},
     separator : {<<";">>, <<";", " ">>}]
    \cup [kind : {"bare"}, keys : [1..1 -> CitationKeys], separator : {<<>>}]
    \cup [kind : {"text"}, keys : {<<>>}, separator : {<<".">>, <<" ", "t", " ">>, <<"[", "t", "]">>}]
\* the markdown of a fragment; the text of a text fragment is its separator
CitationMarkdown(fragment) ==
    CASE fragment.kind = "group" ->
            <<"[">>
            \o Flatten([k \in 1..Len(fragment.keys) |->
                          (IF k = 1 THEN <<>> ELSE fragment.separator)
                          \o <<"@">> \o fragment.keys[k]])
            \o <<"]">>
      [] fragment.kind = "bare" -> <<"@">> \o fragment.keys[1]
      [] OTHER -> fragment.separator
CitationText(fragments) ==
    Flatten([k \in 1..Len(fragments) |-> CitationMarkdown(fragments[k])])

InitCitations ==
    /\ NoConversion
    /\ arg \in UNION {[1..n -> CitationFragments] : n \in 1..MaxCitationFragments}
    /\ ret = <<>>
    /\ pc = "convert_citations"
ConvertCitationsAlone ==
    /\ pc = "convert_citations"
    /\ ret' = <<convert_citations_to_latex(CitationText(arg))>>
    /\ pc' = "convert_document"
    /\ UNCHANGED <<conversion, arg>>
ConvertCitationDocument ==
    /\ pc = "convert_document"
    /\ ret' = Append(ret, convert_markdown_to_latex(CitationText(arg), FALSE))
    /\ pc' = "citations_converted"
    /\ UNCHANGED <<conversion, arg>>
NextCitations ==
    \/ ConvertCitationsAlone
    \/ ConvertCitationDocument
SpecCitations == InitCitations /\ [][NextCitations]_vars

(***************************************************************************)
(* convert_markdown_to_latex on documents of pipe-delimited lines: a line  *)
(* of cells on its own, or a table of a header line, a separator line and  *)
(* a line of cells, with or without a line of text before it.              *)
(***************************************************************************)
MaxCells == 2
PipeCells ==
    {<<"a">>, <<"@", "x">>, <<"[", "@", "x", ";", "@", "y", "]">>, <<BT, "@", "x", BT>>}
PipeLine(cells) ==
    <<"|">> \o Flatten([k \in 1..Len(cells) |-> <<" ">> \o cells[k] \o <<" ", "|">>])
PipeSeparator(n) == <<"|">> \o Flatten([k \in 1..n |-> <<"-", "|">>])
PipeShapes ==
    [kind : {"row", "table"},
     body : UNION {[1..n -> PipeCells] : n \in 1..MaxCells},
     before : {<<>>, <<"t", "\n">>}]
PipeDocument(document) ==
    document.before
    \o (IF document.kind = "table"
        THEN PipeLine([k \in 1..Len(document.body) |-> <<"h">>]) \o <<"\n">>
             \o PipeSeparator(Len(document.body)) \o <<"\n">>
        ELSE <<>>)
    \o PipeLine(document.body)

InitRows ==
    /\ shape \in PipeShapes
    /\ markdown = PipeDocument(shape)
    /\ is_supplementary \in BOOLEAN
    /\ content = markdown
    /\ protected_verbatim_content = <<>>
    /\ protected_backtick_content = <<>>
    /\ protected_markdown_tables = <<>>
    /\ protected_tables = <<>>
    /\ pc = Pipeline[1]
    /\ NoCall
SpecRows == InitRows /\ [][Next]_vars

(***************************************************************************)
(* convert_markdown_to_latex on a line of inline code spans and other      *)
(* text: spans in single backticks, in double backticks, and a span in     *)
(* double backticks around a span in single backticks.                     *)
(***************************************************************************)
MaxSpans == 3
SingleSpan == <<BT, "c", BT>>
DoubleSpan == <<BT, BT, "b", BT, BT>>
EnclosingSpan == <<BT, BT, " ">> \o SingleSpan \o <<" ", BT, BT>>
CodeSpans == {SingleSpan, DoubleSpan, EnclosingSpan}
SpanFragments == CodeSpans \cup {<<"a">>, <<"*", "b", "*">>}
SpanShapes ==
    [kind : {"spans"}, body : UNION {[1..n -> SpanFragments] : n \in 1..MaxSpans}]
InitSpans ==
    /\ shape \in SpanShapes
    /\ markdown = Join(shape.body, " ")
    /\ is_supplementary \in BOOLEAN
    /\ content = markdown
    /\ protected_verbatim_content = <<>>
    /\ protected_backtick_content = <<>>
    /\ protected_markdown_tables = <<>>
    /\ protected_tables = <<>>
    /\ pc = Pipeline[1]
    /\ NoCall
SpecSpans == InitSpans /\ [][Next]_vars

(***************************************************************************)
(* The escaping of code in table cells: process_code_in_table of           *)
(* generate_latex_table and _escape_latex_special_chars of                 *)
(* table_processor.py, on short texts of special and other characters.     *)
(***************************************************************************)
MaxCodeAtoms == 3
CodeAtoms == {"a", "\\", "{", "}", "&", "_", "^", "["}
CodeTexts == UNION {[1..n -> CodeAtoms] : n \in 1..MaxCodeAtoms}
InitCodeEscape ==
    /\ NoConversion
    /\ arg \in CodeTexts
    /\ ret = <<>>
    /\ pc = "process_code_in_table"
ProcessCodeInTable ==
    /\ pc = "process_code_in_table"
    /\ ret' = <<process_code_in_table(arg)>>
    /\ pc' = "escape_latex_special_chars"
    /\ UNCHANGED <<conversion, arg>>
EscapeLatexSpecialChars ==
    /\ pc = "escape_latex_special_chars"
    /\ ret' = Append(ret, _escape_latex_special_chars(arg))
    /\ pc' = "code_escaped"
    /\ UNCHANGED <<conversion, arg>>
NextCodeEscape ==
    \/ ProcessCodeInTable
    \/ EscapeLatexSpecialChars
SpecCodeEscape == InitCodeEscape /\ [][NextCodeEscape]_vars

(***************************************************************************)
(* extract_content_sections on articles whose section holds a fenced code  *)
(* block: the lines of the code may begin with "#".                        *)
(***************************************************************************)
MaxFencedLines == 2
ResultsTitle == <<"R", "e", "s", "u", "l", "t", "s">>
DiscussionTitle == <<"D", "i", "s", "c", "u", "s", "s", "i", "o", "n">>
FencedLines ==
    {<<"a">>, <<"#", "#", " ">> \o ResultsTitle, <<"#", "#", "x">>, <<"#", " ", "a">>}
FencedCode == UNION {[1..n -> FencedLines] : n \in 1..MaxFencedLines}
FencedBody(language, code, after) ==
    <<"a", "\n", "\n">> \o Fence \o language \o <<"\n">> \o Join(code, "\n")
    \o <<"\n">> \o Fence \o <<"\n">> \o after
FencedArticles ==
    {(IF Len(preamble) > 0 THEN preamble \o <<"\n">> ELSE <<>>)
     \o SectionText(title, FencedBody(language, code, after)) \o last :
        preamble \in {<<>>, <<"a">>},
        title \in {<<"M", "e", "t", "h", "o", "d", "s">>,
                   <<"I", "n", "t", "r", "o", "d", "u", "c", "t", "i", "o", "n">>},
        language \in {<<>>, <<"python">>},
        code \in FencedCode,
        after \in {<<>>, <<"\n", "a">>},
        last \in {<<>>, SectionText(DiscussionTitle, <<"a">>)}}
InitFencedSections ==
    /\ NoConversion
    /\ arg \in FencedArticles
    /\ ret = <<>>
    /\ pc = "extract"
SpecFencedSections == InitFencedSections /\ [][NextExtract]_vars

(***************************************************************************)
(* The loops of the three line scanners convert_lists_to_latex,            *)
(* convert_code_blocks_to_latex and convert_tables_to_latex, one step for  *)
(* each pass of a loop.  pc is the loop whose test comes next; ret holds   *)
(* the local variables.  i counts the lines from 1: it is the index of the *)
(* code plus one, and i > Len(lines) is the code's i >= len(lines).        *)
(***************************************************************************)
MaxScannedLines == 4
OuterLoops == {"lists", "code_blocks", "tables"}
InnerLoops == {"list_items", "code_lines", "data_rows"}
ScannedLines(scanner) ==
    CASE scanner = "lists" ->
             {<<"a">>, <<>>, <<"-", " ", "x">>, <<" ", " ", " ", "-", " ", "w">>,
              <<"1", ".", " ", "y">>}
      [] scanner = "code_blocks" ->
             {<<"a">>, <<>>, Indent(4) \o <<"x">>, BeginVerbatim, EndVerbatim}
      [] scanner = "tables" ->
             {<<"a">>, <<>>, <<"|", " ", "h", " ", "|">>, <<"|", "-", "|">>,
              <<"{", "#", "t", "}", " ", "*", "*", "c", "*", "*">>}
ScannedTexts(scanner) ==
    {Join(ls, "\n") :
        ls \in UNION {[1..n -> ScannedLines(scanner)] : n \in 1..MaxScannedLines}}
\* the fenced blocks are replaced before the lines are scanned
fenced_blocks_converted(text) ==
    Splice(text, FindAll(FencedRe, text),
           [k \in 1..Len(FindAll(FencedRe, text)) |->
               process_fenced_code_block(text, FindAll(FencedRe, text)[k])])
Locals(lines) ==
    [lines |-> lines, i |-> 1, outer_i |-> 1, result_lines |-> <<>>,
     in_code_env |-> FALSE, ordered |-> FALSE, indent_level |-> 0,
     list_lines |-> <<>>, code_lines |-> <<>>,
     headers |-> <<>>, data_rows |-> <<>>, table_caption |-> <<>>,
     table_width |-> "single"]
InitScan ==
    /\ NoConversion
    /\ pc \in OuterLoops
    /\ arg \in ScannedTexts(pc)
    /\ ret = Locals(Split(IF pc = "code_blocks" THEN fenced_blocks_converted(arg)
                          ELSE arg, "\n"))
ScanUnchanged ==
    UNCHANGED <<markdown, shape, is_supplementary, protected_verbatim_content,
                protected_backtick_content, protected_markdown_tables,
                protected_tables, arg, section_index>>
\* return "\n".join(result_lines)
ReturnLines ==
    /\ pc' = "returned"
    /\ content' = Join(ret.result_lines, "\n")
    /\ ret' = ret
\* result_lines.append(line); i += 1
CopyLine(loop, in_code_env) ==
    /\ pc' = loop
    /\ ret' = [ret EXCEPT !.i = ret.i + 1, !.outer_i = ret.i + 1,
                          !.in_code_env = in_code_env,
                          !.result_lines = Append(@, ret.lines[ret.i])]
    /\ content' = content
\* the rest of a pass of the outer loop after its inner loop
EndBlock(loop, i, added_lines) ==
    /\ pc' = loop
    /\ ret' = [ret EXCEPT !.i = i, !.outer_i = i,
                          !.result_lines = @ \o added_lines]
    /\ content' = content

\* one pass of the outer loop of convert_lists_to_latex, up to its inner loop
ScanListLine ==
    /\ pc = "lists"
    /\ IF ret.i > Len(ret.lines) THEN ReturnLines
       ELSE IF \/ M(BulletRe, ret.lines[ret.i], 1, NoCaps).ok
               \/ M(NumberRe, ret.lines[ret.i], 1, NoCaps).ok
       THEN /\ pc' = "list_items"
            /\ ret' = [ret EXCEPT
                          !.ordered = ~M(BulletRe, ret.lines[ret.i], 1, NoCaps).ok,
                          !.indent_level = LeadingSpace(ret.lines[ret.i]),
                          !.list_lines = <<>>]
            /\ content' = content
       ELSE CopyLine("lists", FALSE)
    /\ ScanUnchanged
EndList(i) ==
    EndBlock("lists", i,
        << <<"\\", "begin", "{", ListEnv(ret.ordered), "}">> >>
        \o ret.list_lines
        \o << <<"\\", "end", "{", ListEnv(ret.ordered), "}">> >>)
\* one pass of the loop that collects the items of a list
CollectListItem ==
    /\ pc = "list_items"
    /\ IF ret.i > Len(ret.lines) THEN EndList(ret.i)
       ELSE IF IsItemLine(ret.lines[ret.i], ret.ordered, ret.indent_level)
       THEN /\ pc' = "list_items"
            /\ ret' = [ret EXCEPT
                          !.i = ret.i + 1,
                          !.list_lines =
                              Append(@, <<" ", " ", "\\", "item", " ">>
                                        \o item_content(ret.lines[ret.i], ret.ordered))]
            /\ content' = content
       ELSE IF IsBlankLine(ret.lines[ret.i])
       THEN IF /\ ret.i + 1 <= Len(ret.lines)
               /\ IsItemLine(ret.lines[ret.i + 1], ret.ordered, ret.indent_level)
            THEN /\ pc' = "list_items"
                 /\ ret' = [ret EXCEPT !.i = ret.i + 1]
                 /\ content' = content
            ELSE EndList(ret.i + 1)
       ELSE EndList(ret.i)
    /\ ScanUnchanged

\* one pass of the outer loop of the indented-block scanner of
\* convert_code_blocks_to_latex, up to its inner loop
ScanCodeLine ==
    /\ pc = "code_blocks"
    /\ IF ret.i > Len(ret.lines) THEN ReturnLines
       ELSE IF \/ Contains(ret.lines[ret.i], BeginVerbatim)
               \/ Contains(ret.lines[ret.i], BeginMinted)
       THEN CopyLine("code_blocks", TRUE)
       ELSE IF \/ Contains(ret.lines[ret.i], EndVerbatim)
               \/ Contains(ret.lines[ret.i], EndMinted)
       THEN CopyLine("code_blocks", FALSE)
       ELSE IF ret.in_code_env THEN CopyLine("code_blocks", TRUE)
       ELSE IF Indented(ret.lines[ret.i]) /\ ~IsBlankLine(ret.lines[ret.i])
       THEN /\ pc' = "code_lines"
            /\ ret' = [ret EXCEPT !.code_lines = <<>>]
            /\ content' = content
       ELSE CopyLine("code_blocks", FALSE)
    /\ ScanUnchanged
\* one pass of the loop that collects the lines of an indented block
CollectCodeLine ==
    /\ pc = "code_lines"
    /\ IF /\ ret.i <= Len(ret.lines)
          /\ Indented(ret.lines[ret.i]) \/ IsBlankLine(ret.lines[ret.i])
       THEN /\ pc' = "code_lines"
            /\ ret' = [ret EXCEPT !.i = ret.i + 1,
                                  !.code_lines = Append(@, Dedent(ret.lines[ret.i]))]
            /\ content' = content
       ELSE EndBlock("code_blocks", ret.i,
                IF Len(DropTrailingBlank(ret.code_lines)) > 0
                THEN <<BeginVerbatim>> \o DropTrailingBlank(ret.code_lines)
                     \o <<EndVerbatim>>
                ELSE <<>>)
    /\ ScanUnchanged

\* i += 2: the header and the separator are skipped
after_header_and_row(i) == i + 3
after_header(i) == i + 2
\* one pass of the outer loop of convert_tables_to_latex, up to its loop of
\* data rows
ScanTableLine ==
    /\ pc = "tables"
    /\ IF ret.i > Len(ret.lines) THEN ReturnLines
       ELSE IF is_table_start(ret.lines, ret.i)
       THEN \E header_line \in {Strip(ret.lines[ret.i])},
               prev \in {previous_line(ret.lines, ret.i)} :
                /\ pc' = "data_rows"
                /\ ret' = [ret EXCEPT
                              !.i = after_header(ret.i),
                              !.headers = RowCells(header_line),
                              !.data_rows = <<>>,
                              !.table_caption = legacy_caption(prev),
                              !.table_width = legacy_width(prev)]
                /\ content' = content
       ELSE CopyLine("tables", FALSE)
    /\ ScanUnchanged
\* the table is written; the blank line and the caption line after it are
\* skipped
EndTable ==
    \E nc \in {new_caption(ret.lines, ret.i)} :
    \E new_format_caption \in
           {SubGroup1(ItalicRe, SubGroup1(BoldRe, nc.caption_text, Textbf), Textit)} :
    \E latex_table \in
           {generate_latex_table(ret.headers, ret.data_rows,
                caption_of(new_format_caption, ret.table_caption),
                ret.table_width, nc.table_id, protected_backtick_content,
                rotation_of(nc.attributes_str), is_supplementary)} :
        /\ pc' = "tables"
        /\ ret' = [ret EXCEPT
                      !.i = IF nc.parsed THEN ret.i + 2 ELSE ret.i,
                      !.outer_i = IF nc.parsed THEN ret.i + 2 ELSE ret.i,
                      !.result_lines =
                          kept_lines(ret.result_lines, ret.table_caption)
                          \o Split(latex_table, "\n")
                          \o (IF is_supplementary THEN << <<"\\", "newpage">> >>
                              ELSE <<>>)]
        /\ content' = content
\* one pass of the loop that collects the data rows of a table
CollectDataRow ==
    /\ pc = "data_rows"
    /\ IF ret.i <= Len(ret.lines) /\ ~IsBlankLine(ret.lines[ret.i])
       THEN \E current_line \in {Strip(ret.lines[ret.i])} :
               IF IsTableRow(current_line)
               THEN \E cells \in {RowCells(current_line)} :
                       /\ pc' = "data_rows"
                       /\ ret' = [ret EXCEPT
                                     !.i = ret.i + 1,
                                     !.data_rows =
                                         Append(@, FitCells(cells, Len(ret.headers)))]
                       /\ content' = content
               ELSE EndTable
       ELSE EndTable
    /\ ScanUnchanged

NextScan ==
    \/ ScanListLine
    \/ CollectListItem
    \/ ScanCodeLine
    \/ CollectCodeLine
    \/ ScanTableLine
    \/ CollectDataRow
SpecScan == InitScan /\ [][NextScan]_vars

(***************************************************************************)
(* convert_markdown_to_latex on a document of one figure, in each of the   *)
(* three forms, whose file name has or has not an underscore.              *)
(***************************************************************************)
UnderscorePaths ==
    {<<"FIGURES", "/", "Figure", "_", "1", ".", "png">>,
     <<"FIGURES", "/", "Figure", "_", "1", ".", "svg">>,
     <<"FIGURES", "/", "fig1", ".", "png">>}
FigureShapes ==
    [kind : {"figure"}, form : FigureForms, path : UnderscorePaths,
     caption : {<<"T">>, <<"T", " ", "u">>}, before : {<<>>, <<"t", "\n", "\n">>}]
InitFigureDocument ==
    /\ shape \in FigureShapes
    /\ markdown = shape.before \o FigureText(shape)
    /\ is_supplementary \in BOOLEAN
    /\ content = markdown
    /\ protected_verbatim_content = <<>>
    /\ protected_backtick_content = <<>>
    /\ protected_markdown_tables = <<>>
    /\ protected_tables = <<>>
    /\ pc = Pipeline[1]
    /\ NoCall
SpecFigureDocument == InitFigureDocument /\ [][Next]_vars

(***************************************************************************)
(* process_supplementary_notes on a text of lines: the heading of the      *)
(* notes section, ### headers with titles in and out of the list of        *)
(* excluded headers, and other lines.                                      *)
(***************************************************************************)
MaxNoteLines == 4
NoteTitles ==
    {<<"A">>, <<"B", " ", "c">>,
     <<"File", " ", "Structure", " ", "and", " ", "Organisation">>,
     <<"file", " ", "structure", " ", "and", " ", "organization">>}
NoteHeader(title) == <<"#", "#", "#", " ">> \o title
NoteLines == {NotesHeading, <<"t">>} \cup {NoteHeader(title) : title \in NoteTitles}
NoteDocuments == UNION {[1..n -> NoteLines] : n \in 1..MaxNoteLines}
InitNotes ==
    /\ NoConversion
    /\ arg \in NoteDocuments
    /\ ret = <<>>
    /\ pc = "process_notes"
ProcessNotes ==
    /\ pc = "process_notes"
    /\ ret' = <<process_supplementary_notes(Join(arg, "\n"))>>
    /\ pc' = "notes_processed"
    /\ UNCHANGED <<conversion, arg>>
NextNotes ==
    \/ ProcessNotes
SpecNotes == InitNotes /\ [][NextNotes]_vars

(***************************************************************************)
(* convert_tables_to_latex on one table whose data rows have fewer cells   *)
(* than the header row, as many, or more.                                  *)
(***************************************************************************)
MaxColumns == 2
MaxRowCells == 3
MaxDataRows == 2
HeaderRows == {[k \in 1..n |-> <<"h">>] : n \in 1..MaxColumns}
DataRows == UNION {[1..n -> {<<"a">>, <<"b">>}] : n \in 0..MaxRowCells}
RowTables ==
    [headers : HeaderRows, rows : UNION {[1..n -> DataRows] : n \in 1..MaxDataRows}]
\* a row of no cells is the line "|"
RowText(cells) == IF Len(cells) = 0 THEN <<"|">> ELSE PipeLine(cells)
RowTableText(table) ==
    PipeLine(table.headers) \o <<"\n">> \o PipeSeparator(Len(table.headers))
    \o Flatten([r \in 1..Len(table.rows) |-> <<"\n">> \o RowText(table.rows[r])])

InitRowTable ==
    /\ NoConversion
    /\ arg \in RowTables
    /\ ret = <<>>
    /\ pc = "convert_tables"
ConvertTablesAlone ==
    /\ pc = "convert_tables"
    /\ ret' = <<convert_tables_to_latex(RowTableText(arg), <<>>, FALSE)>>
    /\ pc' = "tables_converted"
    /\ UNCHANGED <<conversion, arg>>
NextRowTable ==
    \/ ConvertTablesAlone
SpecRowTable == InitRowTable /\ [][NextRowTable]_vars

(***************************************************************************)
(* Properties of the conversion                                            *)
(***************************************************************************)
Finished == pc = "done"

\* the placeholders of text, by kind
PlaceholdersIn(text, Placeholder(_)) ==
    {n \in 0..MaxPlaceholders : \E i \in 1..Len(text) : text[i] = Placeholder(n)}
HasPlaceholder(text) == \E i \in 1..Len(text) : text[i] \in PlaceholderAtoms

\* C1: the text that convert_markdown_to_latex returns holds no placeholder
\* of any kind: verbatim, backtick, markdown table, LaTeX table.
C1_NoPlaceholderReturned == Finished => ~HasPlaceholder(content)

\* C2: the citation step of the conversion, and convert_citations_to_latex
\* called on the markdown itself, emit no \cite whose key is the prefix of
\* a cross-reference (@fig:x, @sfig:x, @eq:x, @tbl:x, @stable:x, @snote:x).
\* The prefixes occur in the documents only in cross-references.
CrossReferencePrefixes == {"fig", "sfig", "eq", "tbl", "stable", "snote"}
NoCrossReferenceCited(text) ==
    \A i \in 1..(Len(text) - 3) :
        IsPrefixAt(<<"\\", "cite", "{">>, text, i)
            => text[i + 3] \notin CrossReferencePrefixes
C2_NoCiteForCrossReference ==
    /\ NoCrossReferenceCited(content)
    /\ pc = "citations" => NoCrossReferenceCited(convert_citations_to_latex(markdown))

\* C3: a document that is one inline code span comes out with \texttt
\* around the content of the span, the underscores escaped and nothing else
\* changed: no bold or italic marker in it is converted.
HasBacktick(text) == \E i \in 1..Len(text) : text[i] = BT
IsCodeSpan ==
    shape.kind = "code" /\ Len(shape.body) > 0 /\ ~HasBacktick(shape.body)
C3_CodeSpanKept ==
    Finished /\ IsCodeSpan
        => Contains(content, Texttt(Replace(shape.body, <<"_">>, <<"\\", "_">>)))

\* C4: a document that is one fenced code block comes out with the lines
\* between the fences unchanged inside the verbatim environment; no step
\* changes them, an @key in them is no \cite.
C4_FencedBlockKept ==
    Finished /\ shape.kind = "fenced"
        => Contains(content,
               BeginVerbatim \o <<"\n">> \o shape.body \o <<"\n">> \o EndVerbatim)

\* C5: in every LaTeX table that the conversion emits, each data row has as
\* many cells, separated by &, as the header row.  A row is a line that ends
\* with the row end \; an & after a backslash is a character of a cell.
IsRow(line) == EndsWith(line, <<"\\", "\\">>)
CellCount(line) ==
    1 + Cardinality({i \in 1..Len(line) :
                        line[i] = "&" /\ (i = 1 \/ line[i - 1] # "\\")})
RowsAgree(table) ==
    LET lines == Split(table, "\n")
        rows == {k \in 1..Len(lines) : IsRow(lines[k])}
    IN \A k \in rows : CellCount(lines[k]) = CellCount(lines[Min(rows)])
C5_RowsHaveHeaderWidth ==
    \A k \in 1..Len(protected_tables) : RowsAgree(protected_tables[k])

\* C6: escape_special_characters applied to what it returned returns the
\* same text, an escaped underscore is not escaped again.
C6_EscapeIdempotent == pc = "escaped" => ret[2] = ret[1]

\* C7: a placeholder that a step creates (it is in the content after the
\* step and was neither in the content nor in a map before) has an index at
\* least the size that the map of its kind had before the step and below
\* its size after the step, and no value of a map holds a placeholder of
\* that map.
Stored(Placeholder(_)) ==
    UNION {UNION {PlaceholdersIn(map[k], Placeholder) : k \in 1..Len(map)} :
              map \in {protected_verbatim_content, protected_backtick_content,
                       protected_markdown_tables, protected_tables}}
Fresh(map, Placeholder(_)) ==
    LET before == PlaceholdersIn(content, Placeholder) \cup Stored(Placeholder)
        after  == PlaceholdersIn(content', Placeholder)
    IN \A n \in after \ before : Len(map) <= n /\ n < Len(map')
FreshPlaceholders ==
    /\ Fresh(protected_verbatim_content, VerbatimPlaceholder)
    /\ Fresh(protected_backtick_content, BacktickPlaceholder)
    /\ Fresh(protected_markdown_tables, MarkdownTablePlaceholder)
    /\ Fresh(protected_tables, TablePlaceholder)
Flat(map, Placeholder(_)) ==
    \A k \in 1..Len(map) : PlaceholdersIn(map[k], Placeholder) = {}
NoNesting ==
    /\ Flat(protected_verbatim_content, VerbatimPlaceholder)
    /\ Flat(protected_backtick_content, BacktickPlaceholder)
    /\ Flat(protected_markdown_tables, MarkdownTablePlaceholder)
    /\ Flat(protected_tables, TablePlaceholder)
C7_PlaceholdersFreshAndFlat == [][FreshPlaceholders]_vars /\ []NoNesting

\* C8: the last two steps are the restoration of the LaTeX tables and then
\* the restoration of the verbatim blocks; once they are due, no citation,
\* formatting or escaping step runs any more, and nothing runs after them.
Restorations == {"restore_tables", "restore_verbatim"}
Transformations ==
    {"citations", "code_spans", "bold_italic", "links", "underscores"}
C8_RestorationsLast ==
    /\ [][/\ pc = "restore_tables" => pc' = "restore_verbatim"
          /\ pc = "restore_verbatim" => pc' = "done"
          /\ pc' = "restore_tables" => pc \notin Restorations
          /\ pc # "done"]_vars
    /\ [](pc \in Restorations \cup {"done"} => [](pc \notin Transformations))
C8_Restored ==
    /\ Finished
    /\ Len(protected_tables) > 0
    /\ ~HasPlaceholder(content)
    /\ Contains(content, <<"\\", "begin", "{", "tabular", "}">>)

\* C9: the steps that protect run in the order code blocks, verbatim
\* blocks, backtick spans, markdown tables, and no step protects text in
\* which an earlier step has left a placeholder.
C9_ProtectionOrder ==
    /\ [][/\ pc = "code_blocks" => pc' = "protect_verbatim"
          /\ pc = "protect_verbatim" => pc' = "protect_backticks"
          /\ pc = "protect_backticks" => pc' = "protect_markdown_tables"]_vars
    /\ [](\A k \in 1..Len(protected_backtick_content) :
             ~HasPlaceholder(protected_backtick_content[k]))
    /\ [](\A k \in 1..Len(protected_markdown_tables) :
             ~HasPlaceholder(protected_markdown_tables[k]))

\* C10: map_section_title_to_key returns the key of the first rule, in the
\* order of SectionRules, whose substrings occur in the lower-cased title,
\* and the lower-cased title with spaces and hyphens turned into underscores
\* when no rule applies.  A rule applies when all the substrings of one of
\* its alternatives occur.
SectionRules ==
    <<[any |-> {{S_abstract}}, key |-> S_abstract],
      [any |-> {{S_introduction}}, key |-> K_main],
      [any |-> {{S_method}}, key |-> K_methods],
      [any |-> {{S_result, S_discussion}}, key |-> K_results_and_discussion],
      [any |-> {{S_result}}, key |-> K_results],
      [any |-> {{S_discussion}}, key |-> S_discussion],
      [any |-> {{S_conclusion}}, key |-> S_conclusion],
      [any |-> {{S_data_availability_title}, {S_data_access}},
       key |-> K_data_availability],
      [any |-> {{S_code_availability_title}, {S_code_access}},
       key |-> K_code_availability],
      [any |-> {{S_author_contribution}, {S_contribution}},
       key |-> K_author_contributions],
      [any |-> {{S_acknowledgement}, {S_acknowledge}}, key |-> K_acknowledgements],
      [any |-> {{S_funding}, {S_financial_support}, {S_grant}}, key |-> S_funding]>>
Underscored(text) ==
    [k \in 1..Len(text) |-> IF text[k] \in {" ", "-"} THEN "_" ELSE text[k]]
SectionKey(title) ==
    LET lowered == Lower(title)
        applies == {k \in 1..Len(SectionRules) :
                       \E all \in SectionRules[k].any :
                           \A q \in all : Contains(lowered, q)}
    IN IF applies = {} THEN Underscored(lowered) ELSE SectionRules[Min(applies)].key
C10_FirstRuleWins == pc = "mapped" => ret = SectionKey(arg)
C10_BothResultAndDiscussion ==
    /\ pc = "mapped"
    /\ Contains(Lower(arg), S_result)
    /\ Contains(Lower(arg), S_discussion)
    /\ ret = K_results_and_discussion

(***************************************************************************)
(* Properties of extract_content_sections                                  *)
(***************************************************************************)
Extracted == pc = "extracted"
SectionKeyOf(i) == map_section_title_to_key(section_title(Document, i))
SectionLatex(i) ==
    convert_markdown_to_latex(section_content(Document, i),
                              section_is_supplementary(Document, i))
MainIsTextBeforeFirstHeader ==
    Len(section_matches(Document)) > 0 /\ Len(main_content(Document)) > 0
        => /\ HasKey(ret, K_main)
           /\ GetItem(ret, K_main) =
                  convert_markdown_to_latex(main_content(Document),
                      has_supplementary(main_content(Document)))
EveryHeaderHasItsEntry ==
    \A i \in 1..Len(section_matches(Document)) :
        Len(SectionKeyOf(i)) > 0
            => HasKey(ret, SectionKeyOf(i)) /\ GetItem(ret, SectionKeyOf(i)) = SectionLatex(i)
\* C11: when extract_content_sections has returned, the text before the
\* first "## " header, if it is not empty, is what the entry main holds
\* converted, and every "## " header has an entry under its key that holds
\* the conversion of its own body.
C11_SectionsExtracted ==
    Extracted => MainIsTextBeforeFirstHeader /\ EveryHeaderHasItsEntry

MapsEmpty ==
    /\ protected_verbatim_content = <<>>
    /\ protected_backtick_content = <<>>
    /\ protected_markdown_tables = <<>>
    /\ protected_tables = <<>>
\* C12: every call of convert_markdown_to_latex starts with empty maps of
\* protected content (the counters are their sizes), and what it returns is
\* the conversion of its own two arguments, whatever was converted before.
C12_CallsKeepNoState ==
    /\ pc = Pipeline[1] => MapsEmpty /\ content = markdown
    /\ pc = "done" => content = convert_markdown_to_latex(markdown, is_supplementary)
\* a later call starts after a call that had protected a table
C12_CallAfterProtectedTable ==
    /\ pc = Pipeline[1]
    /\ section_index = 2
    /\ \E k \in 1..Len(ret) :
           Contains(ret[k].value, <<"\\", "end", "{", "tabular", "}">>)
    /\ Contains(markdown, <<"|", "-", "|">>)

(***************************************************************************)
(* Properties of the figure conversion                                     *)
(***************************************************************************)
FiguresConverted == pc = "figures_converted"
EndFigure == <<"\\", "end", "{", "figure", "}">>
NewPage == <<"\n", "\\", "newpage">>
EveryFigureEndsItsPage(text) ==
    \A i \in 1..Len(text) :
        IsPrefixAt(EndFigure, text, i) => IsPrefixAt(NewPage, text, i + Len(EndFigure))
NoPageEnded(text) == \A i \in 1..Len(text) : text[i] # "newpage"
SupplementaryPages(text, supplementary) ==
    IF supplementary THEN EveryFigureEndsItsPage(text) ELSE NoPageEnded(text)
\* the word supplementary, in any case, in a text
Occurs(text) ==
    \E k \in 1..(Len(text) - 12) :
        \A j \in 1..13 : LowerAtom(text[k + j - 1]) = S_supplementary[j]
TableEnvironments == {"table", "stable", "sidewaystable"}
EndOfTable(text, i) ==
    /\ IsPrefixAt(<<"\\", "end", "{">>, text, i)
    /\ i + 3 <= Len(text)
    /\ text[i + 3] \in TableEnvironments
AfterTable(text, i) == IF IsPrefixAt(<<"*">>, text, i + 4) THEN i + 6 ELSE i + 5
\* the sections as extract_content_sections converts them: a section is
\* supplementary exactly when the word occurs in its title or in its body,
\* and then its figures and tables end their pages, and otherwise none does
SupplementarySections ==
    pc = "done" =>
        /\ is_supplementary <=>
               \/ Occurs(markdown)
               \/ section_index > 0 /\ Occurs(section_title(Document, section_index))
        /\ is_supplementary =>
               /\ EveryFigureEndsItsPage(content)
               /\ \A i \in 1..Len(content) :
                      EndOfTable(content, i)
                          => IsPrefixAt(NewPage, content, AfterTable(content, i))
        /\ ~is_supplementary => NoPageEnded(content)

\* C13: when is_supplementary holds every figure environment that
\* convert_figures_to_latex emits is directly followed by \newpage, and when
\* it does not hold no \newpage is added; here for the function of md2tex.py
\* and for the function of figure_processor.py.
C13_NewpageAfterSupplementaryFigures ==
    FiguresConverted =>
        /\ SupplementaryPages(ret[1], arg.is_supplementary)
        /\ SupplementaryPages(ret[2], arg.is_supplementary)

\* the path the figure is to be included by
SubdirectoryOf(path) ==
    IF Len(path) = 5 THEN <<path[1], "/", path[3], "/", path[3], ".", path[5]>>
    ELSE path
PngOf(path) == [path EXCEPT ![Len(path)] = IF @ = "svg" THEN "png" ELSE @]
IncludedPath(path) == PngOf(SubdirectoryOf([path EXCEPT ![1] = "Figures"]))
Includes(text, path) == Contains(text, <<"]", "{">> \o IncludedPath(path) \o <<"}">>)
\* C15: every figure is included by its source path with FIGURES/ turned
\* into Figures/, Figures/Name.ext turned into Figures/Name/Name.ext when
\* there is no subdirectory, and .svg turned into .png.
C15_IncludedPath ==
    FiguresConverted =>
        \A k \in 1..Len(arg.figures) :
            Includes(ret[1], arg.figures[k].path) /\ Includes(ret[2], arg.figures[k].path)

HasCaption(text, caption) ==
    Contains(text, <<"\\", "caption", "{">> \o caption \o <<"}">>)
\* C16: the new format is converted before the two earlier ones, so none of
\* its attribute blocks is left in the text, and its caption is all the text
\* after the attribute block up to the next blank line or the end.
C16_NewFormatFirstWithWholeCaption ==
    FiguresConverted =>
        \A n \in 1..2 :
            /\ ~Contains(ret[n], <<"{", "#">>)
            /\ \A k \in 1..Len(arg.figures) :
                   arg.figures[k].form = "new" => HasCaption(ret[n], arg.figures[k].caption)

(***************************************************************************)
(* Properties of generate_latex_table                                      *)
(***************************************************************************)
TableGenerated == pc = "table_generated"
Rotated == arg.rotation_angle \notin {<<>>, <<"0">>}
Environment ==
    (IF arg.is_supplementary
     THEN IF Rotated THEN <<"sidewaystable">> ELSE <<"stable">>
     ELSE <<"table">>)
    \o (IF arg.width = "double" THEN <<"*">> ELSE <<>>)
RotateBox == <<"\\", "rotatebox", "{">> \o arg.rotation_angle \o <<"}", "{">>
\* C14: the environment is sidewaystable for a rotated supplementary table,
\* stable for any other supplementary table and table otherwise, with a star
\* exactly when the width is double; a rotated table that is not
\* supplementary has its tabular inside \rotatebox{<deg>}{...}.
C14_TableEnvironment ==
    TableGenerated =>
        /\ StartsWith(ret, <<"\\", "begin", "{">> \o Environment \o <<"}">>)
        /\ EndsWith(ret, <<"\\", "end", "{">> \o Environment \o <<"}">>)
        /\ Rotated /\ ~arg.is_supplementary => Contains(ret, RotateBox)

(***************************************************************************)
(* Properties of the list conversion                                       *)
(***************************************************************************)
ListsConverted == pc = "lists_converted"
ItemHead == <<" ", " ", "\\", "item", " ">>
\* the texts of the \item lines of a result, in their order
ItemsOf(text) ==
    LET IsItemLine_(line) == StartsWith(line, ItemHead)
        item_lines == SelectSeq(Split(text, "\n"), IsItemLine_)
    IN [k \in 1..Len(item_lines) |->
           SubSeq(item_lines[k], Len(ItemHead) + 1, Len(item_lines[k]))]
\* the texts after the markers of the list-item lines of a document
SourceItems(lines) ==
    LET items == SelectSeq(lines, IsItem)
    IN [k \in 1..Len(items) |-> items[k].text]
\* C17: there is one \item for every list-item line of the source, in the
\* order of the source and with the text after the marker, in the result of
\* convert_lists_to_latex and in the result of convert_markdown_to_latex,
\* also when the list comes after a markdown table.
C17_OneItemPerLine ==
    ListsConverted =>
        /\ ItemsOf(ret[1]) = SourceItems(arg.lines)
        /\ ItemsOf(ret[2]) = SourceItems(arg.lines)

Environments(text) ==
    Cardinality({i \in 1..Len(text) : IsPrefixAt(<<"\\", "begin", "{">>, text, i)})
\* C18: a list whose first item is followed by a blank line and then by a
\* list item goes on with that item only if the item is of the same kind and
\* at the same or a deeper indent than the first item; in every other case
\* the list is closed at the blank line.
C18_BlankLineContinuesList ==
    (/\ ListsConverted
     /\ Len(arg.lines) = 3
     /\ IsItem(arg.lines[1])
     /\ arg.lines[2].kind = "blank"
     /\ IsItem(arg.lines[3])
     /\ Environments(ret[1]) = 1)
        => /\ arg.lines[3].kind = arg.lines[1].kind
           /\ arg.lines[3].indent >= arg.lines[1].indent

CodeBlocksConverted == pc = "code_blocks_converted"
\* the language a fenced block declares: the word after the fence in lower
\* case, a short name standing for the language it abbreviates
DeclaredLanguage(block) ==
    IF Len(block.language) = 1 THEN language_map(LowerAtom(block.language[1]))
    ELSE ""
Highlighted(block) ==
    block.form = "fenced" /\ DeclaredLanguage(block) \in SupportedLanguages
Minted(block) ==
    BeginMinted \o <<"{", DeclaredLanguage(block), "}", "\n">> \o CodeOf(block)
    \o <<"\n">> \o EndMinted
Verbatim(block) ==
    BeginVerbatim \o <<"\n">> \o CodeOf(block) \o <<"\n">> \o EndVerbatim
\* C19: a fenced block becomes a minted environment exactly when its
\* declared language is one of the supported languages; a fenced block with
\* another language or with none, and every block indented by four spaces,
\* becomes a verbatim environment; the code text is copied as it is.
C19_CodeBlockEnvironment ==
    CodeBlocksConverted =>
        ret[1] = arg.before
                 \o (IF Highlighted(arg) THEN Minted(arg) ELSE Verbatim(arg))
                 \o arg.after

CitationsConverted == pc = "citations_converted"
\* the \cite command a fragment stands for: one command with the keys of the
\* fragment in their order, separated by commas
CitationLatex(fragment) ==
    IF fragment.kind = "text" THEN fragment.separator
    ELSE <<"\\", "cite", "{">> \o Join(fragment.keys, ",") \o <<"}">>
ExpectedCitations(fragments) ==
    Flatten([k \in 1..Len(fragments) |-> CitationLatex(fragments[k])])
\* C20: a bracketed group of keys becomes one \cite with the keys in the
\* order of the source, a bare key its own \cite, and no key of a group is
\* converted on its own, in the result of convert_citations_to_latex and in
\* the citations of convert_markdown_to_latex.
C20_GroupsBeforeBareKeys ==
    CitationsConverted =>
        /\ ret[1] = ExpectedCitations(arg)
        /\ ret[2] = ExpectedCitations(arg)
\* a group of two keys and a bare key have been converted
C20_GroupAndBareKeyConverted ==
    /\ CitationsConverted
    /\ \E k \in 1..Len(arg) : arg[k].kind = "group" /\ Len(arg[k].keys) = 2
    /\ \E k \in 1..Len(arg) : arg[k].kind = "bare"
    /\ Contains(ret[1], <<"\\", "cite", "{">>)

\* the text has a citation command
Cited(text) == Contains(text, <<"\\", "cite", "{">>)
\* C21: an @key in a line that starts and ends with | is not converted to
\* \cite: the result of convert_markdown_to_latex for a document whose keys
\* all stand in such lines has no \cite.
C21_NoCitationInPipeLines == Finished => ~Cited(content)

TablesConverted == pc = "tables_converted"
\* the cells a data row is to have in a table of n columns: its first n
\* cells, then empty cells up to n
CellsOfRow(cells, n) ==
    SubSeq(cells, 1, Min({n, Len(cells)}))
    \o [k \in 1..(n - Min({n, Len(cells)})) |-> <<>>]
\* the cells of a line "c1 & c2 \\" of a tabular
RECURSIVE TabularCells(_)
TabularCells(line) ==
    LET amp == {i \in 1..Len(line) : line[i] = "&"}
    IN IF amp = {} THEN <<Strip(line)>>
       ELSE <<Strip(SubSeq(line, 1, Min(amp) - 1))>>
            \o TabularCells(SubSeq(line, Min(amp) + 1, Len(line)))
TabularRows(text) ==
    LET lines == Split(text, "\n")
        IsTabularRow(line) == EndsWith(line, <<"\\", "\\">>)
        rows == SelectSeq(lines, IsTabularRow)
    IN [r \in 1..Len(rows) |-> TabularCells(SubSeq(rows[r], 1, Len(rows[r]) - 2))]
\* C22: the table has a line for the header row and one for every data row
\* of the source, each with as many cells as the header row: a shorter row
\* is padded with empty cells on the right, a longer row is cut after the
\* first n cells, the cells kept are in the order of the source.
C22_RowsFitHeader ==
    TablesConverted =>
        TabularRows(ret[1])
            = <<arg.headers>>
              \o [r \in 1..Len(arg.rows) |-> CellsOfRow(arg.rows[r], Len(arg.headers))]
\* a table with a row shorter and a row longer than the header row
C22_ShortAndLongRowConverted ==
    /\ TablesConverted
    /\ \E r \in 1..Len(arg.rows) : Len(arg.rows[r]) < Len(arg.headers)
    /\ \E r \in 1..Len(arg.rows) : Len(arg.rows[r]) > Len(arg.headers)
    /\ StartsWith(ret[1], <<"\\", "begin", "{", "table", "}">>)

\* the lines of the result after its first and before its last line
InnerLines(text) ==
    LET lines == Split(text, "\n") IN SubSeq(lines, 2, Len(lines) - 1)
\* the environment of the block is closed by the last line of the result: a
\* minted environment always, a verbatim environment when no line of the
\* code is \end{verbatim}
ClosedByLastLine(block) ==
    Highlighted(block) \/ \A k \in 1..Len(block.code) : block.code[k] # EndVerbatim
\* C23: the lines between the \begin line of a code environment and the
\* \end line that closes it are left as they are by the scan for indented
\* blocks: no verbatim environment is opened among them.
C23_NoBlockInsideCodeEnvironment ==
    CodeBlocksConverted /\ ClosedByLastLine(arg) => InnerLines(ret[1]) = arg.code

BackticksProtected == pc = Following("protect_backticks")
Protected == {protected_backtick_content[k] : k \in 1..Len(protected_backtick_content)}
\* C24: once the backtick spans are protected, every span of the document
\* is held whole under a placeholder, a span in double backticks around a
\* span in single backticks as one unit, and no backtick is left in the
\* content.
C24_DoubleSpanProtectedWhole ==
    BackticksProtected =>
        /\ Protected = {shape.body[k] : k \in 1..Len(shape.body)} \cap CodeSpans
        /\ ~Contains(content, <<BT>>)

\* the steps from the end of table processing up to the code-span step
AfterTables ==
    pc \in {"figures", "figure_references", "headers", "citations", "code_spans"}
\* the text has an inline code span in backticks
RawSpan(text) == FindAll(SingleBacktickRe, text) # <<>>
\* C25: from the end of table processing until the code-span step the
\* content has no inline code span in backticks: the spans of the table
\* rows that the tables did not convert are under their placeholders again.
C25_NoRawSpanAfterTables == AfterTables => ~RawSpan(content)

NotesProcessed == pc = "notes_processed"
IsNoteHeader(line) == StartsWith(line, <<"#", "#", "#", " ">>)
TitleOf(line) == SubSeq(line, 5, Len(line))
Excluded(line) ==
    /\ IsNoteHeader(line)
    /\ Lower(TitleOf(line)) \in
           {<<"file", " ", "structure", " ", "and", " ", "organisation">>,
            <<"file", " ", "structure", " ", "and", " ", "organization">>}
\* the lines after the first heading of the notes section
InNotes(lines, k) == \E h \in 1..(k - 1) : lines[h] = NotesHeading
\* the number of the note of line k: the headers of the notes section up
\* to line k that are not excluded
NoteNumber(lines, k) ==
    Cardinality({j \in 1..k : InNotes(lines, j) /\ IsNoteHeader(lines[j])
                                /\ ~Excluded(lines[j])})
NoteHead(lines, k) ==
    <<"\\", "subsection", "{", "Supplementary", " ", "Note", " ",
      ToString(NoteNumber(lines, k)), ":", " ">> \o TitleOf(lines[k]) \o <<"}">>
\* C26: line by line, a header of the notes section whose title is excluded
\* is no note and takes no number, the other headers of the section are
\* notes numbered 1, 2, 3, ... in their order, and every line before the
\* heading of the section, and every other line, is as it was.
C26_NotesNumbered ==
    NotesProcessed =>
        LET lines == Split(ret[1], "\n")
        IN /\ Len(lines) = Len(arg)
           /\ \A k \in 1..Len(arg) :
                IF InNotes(arg, k) /\ IsNoteHeader(arg[k])
                THEN IF Excluded(arg[k])
                     THEN ~Contains(lines[k], <<"Supplementary", " ", "Note">>)
                     ELSE StartsWith(lines[k], NoteHead(arg, k))
                ELSE lines[k] = arg[k]
\* an excluded header between two notes, and a header before the heading
C26_ExcludedHeaderBetweenNotes ==
    /\ NotesProcessed
    /\ Len(arg) = 4
    /\ arg[1] = NotesHeading
    /\ ~Excluded(arg[2]) /\ IsNoteHeader(arg[2])
    /\ Excluded(arg[3])
    /\ ~Excluded(arg[4]) /\ IsNoteHeader(arg[4])
    /\ Contains(ret[1], <<"Supplementary", " ", "Note", " ", "2">>)

\* the argument of the \includegraphics command at position i of a text
GraphicsArgument(text, i) ==
    LET open == Min({j \in i..Len(text) : text[j] = "{"})
        close == Min({j \in open..Len(text) : text[j] = "}"})
    IN SubSeq(text, open + 1, close - 1)
GraphicsOf(text) ==
    {GraphicsArgument(text, i) :
        i \in {j \in 1..Len(text) : IsPrefixAt(<<"\\", "includegraphics">>, text, j)}}
FiguresStepDone ==
    pc \in {"figure_references", "headers", "citations", "code_spans", "bold_italic",
            "links", "underscores", "restore_tables", "restore_verbatim"}
\* C27: no step after the figure conversion changes the argument of an
\* \includegraphics command: the path the figure converter wrote is the
\* path of the final output.
C27_FigurePathKept ==
    [][FiguresStepDone => GraphicsOf(content') = GraphicsOf(content)]_vars

CodeEscaped == pc = "code_escaped"
\* the escape sequence of one character
EscapeOf(c) ==
    CASE c = "\\" -> <<"\\", "textbackslash", "{", "}">>
      [] c = "^" -> <<"\\", "textasciicircum", "{", "}">>
      [] c = "~" -> <<"\\", "textasciitilde", "{", "}">>
      [] c \in {"{", "}", "&", "%", "$", "#", "_"} -> <<"\\", c>>
      [] OTHER -> <<c>>
BracketEscapeOf(c) ==
    CASE c = "[" -> <<"\\", "lbrack", "{", "}">>
      [] c = "]" -> <<"\\", "rbrack", "{", "}">>
      [] c = "@" -> <<"\\", "@">>
      [] OTHER -> EscapeOf(c)
\* C28: the escaped code is the code with every character replaced by its
\* own escape sequence, all at once: nothing an earlier replacement wrote is
\* escaped again, a backslash gives \textbackslash{}.
C28_SimultaneousEscape ==
    CodeEscaped =>
        /\ ret[1] = <<"\\", "texttt", "{">>
                    \o Flatten([k \in 1..Len(arg) |-> EscapeOf(arg[k])]) \o <<"}">>
        /\ ret[2] = Flatten([k \in 1..Len(arg) |-> BracketEscapeOf(arg[k])])

\* the lines that open or close a fenced code block
FenceLines(text) == FindAll(<<Bol, Lit(Fence)>>, text)
\* position pos lies between an opening fence and its closing fence
InsideFence(text, pos) ==
    Cardinality({k \in 1..Len(FenceLines(text)) : FenceLines(text)[k].b < pos}) % 2 = 1
OutsideHeaders ==
    {i \in 1..Len(section_matches(Document)) :
        ~InsideFence(Document, section_matches(Document)[i].b)}
\* from the end of header i to the next header outside a code block
EnclosingContent(i) ==
    LET ms == section_matches(Document)
        later == {j \in OutsideHeaders : j > i}
        section_end == IF later = {} THEN Len(Document) + 1 ELSE ms[Min(later)].b
    IN Strip(SubSeq(Document, ms[i].e, section_end - 1))
SectionKeys == {ret[k].key : k \in 1..Len(ret)}
\* C29: when extract_content_sections has returned, a line that begins
\* with "## " between code fences has started no section: the keys are
\* those of the headers outside code blocks (and main for the text before
\* the first header), and every such header's entry is the conversion of
\* its content up to the next header outside a code block.
C29_NoSectionInsideFence ==
    Extracted =>
        /\ SectionKeys \subseteq
               {SectionKeyOf(i) : i \in OutsideHeaders}
               \cup (IF Len(main_content(Document)) > 0 THEN {K_main} ELSE {})
        /\ \A i \in OutsideHeaders :
               /\ HasKey(ret, SectionKeyOf(i))
               /\ SectionKeyOf(i) # K_main =>
                      GetItem(ret, SectionKeyOf(i)) =
                          convert_markdown_to_latex(EnclosingContent(i),
                              has_supplementary(EnclosingContent(i)))

ScanReturned == pc = "returned"
\* the scanner has returned what the function gives on the whole text
ScanResult ==
    ScanReturned =>
        \/ content = convert_lists_to_latex(arg)
        \/ content = convert_code_blocks_to_latex(arg)
        \/ content = convert_tables_to_latex(arg, protected_backtick_content,
                                             is_supplementary)
\* the code's index is at most len(lines)
IndexInRange == pc \in OuterLoops \cup InnerLoops => ret.i - 1 <= Len(ret.lines)
\* a pass of the outer loop has ended with the index beyond its start
OuterPassAdvances == pc' \in OuterLoops => ret'.i > ret.outer_i
\* the test of the inner loop holds: a pass of its body begins
InnerPass ==
    /\ pc \in InnerLoops
    /\ ret.i <= Len(ret.lines)
    /\ pc = "data_rows" => ~IsBlankLine(ret.lines[ret.i])
\* a number that is smaller after every step of a scanner: the lines left
\* for the outer loop, and within a pass of it the lines left for the inner
\* loop
ScanVariant ==
    LET left(i) == Len(ret.lines) + 1 - i
        weight == Len(ret.lines) + 3
    IN IF pc \in OuterLoops THEN weight * left(ret.i) + weight - 1
       ELSE IF pc \in InnerLoops THEN weight * left(ret.outer_i) + left(ret.i) + 1
       ELSE 0
====
